---- MODULE Spec2Model ----
(***************************************************************************)
(* A model of alembic_utils' entity reconciliation engine: the entity      *)
(* simulator (simulate.py), the session/savepoint discipline it relies on, *)
(* and the diff engine of replaceable_entity.py.                           *)
(*                                                                         *)
(* Text (schema, signature, definition) is a sequence of one-character     *)
(* strings.  A name character inside a definition stands for a reference   *)
(* to the view of that name in the same schema; "!" stands for text the    *)
(* database cannot parse.                                                  *)
(***************************************************************************)
EXTENDS Integers, Sequences, FiniteSets, TLC

VARIABLES
    sess,       \* the sqlalchemy Session: [db, stack]; stack[1] is the root transaction
    sim,        \* simulate_entity (simulate.py): frames of the generator and its dependencies
    log,        \* history: the session calls simulate_entity made, in order
    run         \* compare_registered_entities: one reconciliation run and what follows it

vars == <<sess, sim, log, run>>

----------------------------------------------------------------------------
(* Bounds *)

MaxDeps == 2        \* longest dependency list handed to simulate_entity
MaxUserStmts == 1   \* statements the caller executes while it holds the scope

----------------------------------------------------------------------------
(* Text *)

Whitespace == {" ", "\n"}

Range(s) == {s[i] : i \in 1..Len(s)}

RECURSIVE LStrip(_)
LStrip(t) == IF t # <<>> /\ Head(t) \in Whitespace THEN LStrip(Tail(t)) ELSE t

RECURSIVE RStrip(_)
RStrip(t) ==
    IF t # <<>> /\ t[Len(t)] \in Whitespace THEN RStrip(SubSeq(t, 1, Len(t) - 1)) ELSE t

Strip(t) == RStrip(LStrip(t))

\* index of the first whitespace character of t, Len(t) + 1 when there is none
RECURSIVE WordEnd(_, _)
WordEnd(t, i) == IF i > Len(t) \/ t[i] \in Whitespace THEN i ELSE WordEnd(t, i + 1)

\* str.split(): the words of t, runs of whitespace being one separator
RECURSIVE Split(_)
Split(t) ==
    IF t = <<>> THEN <<>>
    ELSE IF Head(t) \in Whitespace THEN Split(Tail(t))
    ELSE LET n == WordEnd(t, 1)
         IN  <<SubSeq(t, 1, n - 1)>> \o Split(SubSeq(t, n, Len(t)))

RECURSIVE Join(_, _)
Join(sep, words) ==
    IF words = <<>> THEN <<>>
    ELSE IF Len(words) = 1 THEN words[1]
    ELSE words[1] \o sep \o Join(sep, Tail(words))

normalize_whitespace(text) == Strip(Join(<<" ">>, Split(text)))

RECURSIVE RStripSemicolon(_)
RStripSemicolon(t) ==
    IF t # <<>> /\ t[Len(t)] = ";" THEN RStripSemicolon(SubSeq(t, 1, Len(t) - 1)) ELSE t

strip_terminating_semicolon(sql) == Strip(RStripSemicolon(Strip(sql)))

\* "::" is kept, any other ":" becomes "\:"
RECURSIVE escape_colon(_)
escape_colon(sql) ==
    IF sql = <<>> THEN <<>>
    ELSE IF Len(sql) >= 2 /\ sql[1] = ":" /\ sql[2] = ":"
         THEN <<":", ":">> \o escape_colon(SubSeq(sql, 3, Len(sql)))
    ELSE IF sql[1] = ":" THEN <<"\\", ":">> \o escape_colon(Tail(sql))
    ELSE <<sql[1]>> \o escape_colon(Tail(sql))

----------------------------------------------------------------------------
(* Entities *)

\* ReplaceableEntity.__subclasses__(), in the order the drop detection walks them
Subclasses == <<"PGView", "PGMaterializedView">>

ReplaceableEntity(cls, schema, signature, definition) ==
    [cls |-> cls,
     schema |-> normalize_whitespace(schema),
     signature |-> normalize_whitespace(signature),
     definition |-> escape_colon(strip_terminating_semicolon(definition))]

identity(e) == <<e.cls, ":", " ">> \o e.schema \o <<".">> \o e.signature

\* the characters of the model's alphabet in the order Python compares them
CharRank(c) ==
    CASE c = "\n" -> 10 [] c = " " -> 32 [] c = "!" -> 33 [] c = "." -> 46
      [] c = "1" -> 49 [] c = "2" -> 50 [] c = ":" -> 58 [] c = ";" -> 59
      [] c = "B" -> 66 [] c = "\\" -> 92 [] c = "_" -> 95 [] c = "a" -> 97
      [] c = "b" -> 98 [] c = "c" -> 99 [] c = "d" -> 100 [] c = "e" -> 101
      [] c = "p" -> 112 [] c = "x" -> 120
      [] c = "PGMaterializedView" -> 200 [] c = "PGView" -> 201
      [] OTHER -> 255

\* s < t as Python orders two strings
RECURSIVE StrLess(_, _)
StrLess(s, t) ==
    IF t = <<>> THEN FALSE
    ELSE IF s = <<>> THEN TRUE
    ELSE IF Head(s) = Head(t) THEN StrLess(Tail(s), Tail(t))
    ELSE CharRank(Head(s)) < CharRank(Head(t))

----------------------------------------------------------------------------
(* The database: a set of rows [cls, schema, name, src] *)

NameChars == {"a", "b", "c", "d", "e", "B", "x"}

\* the text pg_views / pg_matviews hand back for a stored definition: the
\* query parsed and rendered again
DbSource(definition) == <<" ">> \o Join(<<" ">>, Split(definition)) \o <<";">>

\* the statements quote schema and signature: the name is stored as written
DbKey(e) == <<e.cls, e.schema, e.signature>>

RowKey(r) == <<r.cls, r.schema, r.name>>

Keys(db) == {RowKey(r) : r \in db}

\* the views a definition selects from
Refs(schema, text) == {<<"PGView", schema, <<c>>>> : c \in Range(text) \cap NameChars}

Parses(text) == "!" \notin Range(text) /\ Split(text) # <<>>

\* "?" stands for a clause the database parses and then refuses (SQLSTATE
\* class 0A, feature not supported), such as WITH CHECK OPTION on a view
\* that cannot be updated
Supported(text) == "?" \notin Range(text)

\* rows that select from the row with key k
DirectDependents(db, k) == {r \in db : k \in Refs(r.schema, r.src) /\ RowKey(r) # k}

RECURSIVE Closure(_, _)
Closure(db, ks) ==
    LET more == UNION {{RowKey(r) : r \in DirectDependents(db, k)} : k \in ks}
    IN  IF more \subseteq ks THEN ks ELSE Closure(db, ks \cup more)

Ok(db) == [ok |-> TRUE, db |-> db, err |-> "none"]
Err(db, e) == [ok |-> FALSE, db |-> db, err |-> e]

\* CREATE VIEW / CREATE MATERIALIZED VIEW
ExecCreate(db, e) ==
    IF ~Parses(e.definition) THEN Err(db, "SyntaxError")
    ELSE IF DbKey(e) \in Keys(db) THEN Err(db, "DuplicateObject")
    ELSE IF ~(Refs(e.schema, e.definition) \subseteq Keys(db)) THEN Err(db, "UndefinedTable")
    ELSE IF ~Supported(e.definition) THEN Err(db, "FeatureNotSupported")
    ELSE Ok(db \cup {[cls |-> e.cls, schema |-> e.schema,
                      name |-> e.signature,
                      src |-> DbSource(e.definition)]})

\* DROP VIEW / DROP MATERIALIZED VIEW [cascade]
ExecDrop(db, e, cascade) ==
    LET k == DbKey(e)
    IN  IF k \notin Keys(db) THEN Err(db, "UndefinedObject")
        ELSE IF cascade THEN Ok({r \in db : RowKey(r) \notin Closure(db, {k})})
        ELSE IF DirectDependents(db, k) # {} THEN Err(db, "DependentObjectsStillExist")
        ELSE Ok({r \in db : RowKey(r) # k})

\* the column list of a query: CREATE OR REPLACE VIEW keeps a view only when
\* the new query yields the columns of the old one (here: its first word)
Columns(text) == Head(Split(strip_terminating_semicolon(text)))

\* the statement creates and never replaces
ExecCreateOrReplace_CreateOnly(db, e) == ExecCreate(db, e)

\* PGView.to_sql_statement_create_or_replace: CREATE OR REPLACE VIEW and, when
\* that raises, DROP VIEW IF EXISTS then CREATE VIEW, all in one block.
\* PGMaterializedView.to_sql_statement_create_or_replace: DROP MATERIALIZED
\* VIEW IF EXISTS then CREATE MATERIALIZED VIEW.
ExecCreateOrReplace(db, e) ==
    LET k == DbKey(e)
        old == {r \in db : RowKey(r) = k}
        row == [cls |-> e.cls, schema |-> e.schema, name |-> e.signature,
                src |-> DbSource(e.definition)]
        inPlace == /\ e.cls = "PGView"
                   /\ Refs(e.schema, e.definition) \subseteq Keys(db) \ {k}
                   /\ Supported(e.definition)
                   /\ \A r \in old : Columns(r.src) = Columns(e.definition)
    IN  IF ~Parses(e.definition) THEN Err(db, "SyntaxError")
        ELSE IF inPlace THEN Ok((db \ old) \cup {row})
        ELSE IF old # {} /\ DirectDependents(db, k) # {}
             THEN Err(db, "DependentObjectsStillExist")
        ELSE IF ~(Refs(e.schema, e.definition) \subseteq Keys(db) \ {k})
             THEN Err(db, "UndefinedTable")
        ELSE IF ~Supported(e.definition) THEN Err(db, "FeatureNotSupported")
        ELSE Ok((db \ old) \cup {row})

\* text LIKE pattern: "_" stands for any one character, "%" for any run
RECURSIVE Like(_, _)
Like(pattern, text) ==
    IF pattern = <<>> THEN text = <<>>
    ELSE IF Head(pattern) = "%"
         THEN Like(Tail(pattern), text) \/ (text # <<>> /\ Like(pattern, Tail(text)))
    ELSE /\ text # <<>>
         /\ Head(pattern) \in {"_", Head(text)}
         /\ Like(Tail(pattern), Tail(text))

\* the rows of a set in the order the catalog query returns them (the query
\* has no ORDER BY; the model fixes one order, names descending)
RECURSIVE RowOrder(_)
RowOrder(rows) ==
    IF rows = {} THEN <<>>
    ELSE LET r == CHOOSE x \in rows : \A y \in rows \ {x} :
                      StrLess(y.schema \o <<".">> \o y.name, x.schema \o <<".">> \o x.name)
         IN  <<r>> \o RowOrder(rows \ {r})

----------------------------------------------------------------------------
(* The session: begin_nested() opens a savepoint, rollback() releases the  *)
(* innermost open transaction and restores what it saw when it began.      *)

Session(db) == [db |-> db, stack |-> <<db>>]

begin_nested(s) == [s EXCEPT !.stack = Append(@, s.db)]

rollback(s) ==
    IF Len(s.stack) > 1
    THEN [db |-> s.stack[Len(s.stack)], stack |-> SubSeq(s.stack, 1, Len(s.stack) - 1)]
    ELSE [db |-> s.stack[1], stack |-> s.stack]

execute(s, res) == [s EXCEPT !.db = res.db]

----------------------------------------------------------------------------
(* Declared entities and live databases the specifications start from *)

VA == ReplaceableEntity("PGView", <<"p">>, <<"a">>, <<"1">>)
VA2 == ReplaceableEntity("PGView", <<"p">>, <<" ", "a">>, <<"2", ";">>)
VB == ReplaceableEntity("PGView", <<"p">>, <<"b">>, <<"1", " ", "a">>)
VBad == ReplaceableEntity("PGView", <<"p">>, <<"B">>, <<"!">>)
VAx == ReplaceableEntity("PGView", <<"p">>, <<"a">>, <<"!", "\n">>)

\* the database after the entities of es were created, in order, in db
RECURSIVE Created(_, _)
Created(db, es) == IF es = <<>> THEN db ELSE Created(ExecCreate(db, Head(es)).db, Tail(es))

SimPool == {VA, VB, VBad, VAx}

SimDBs == {Created({}, es) : es \in {<<>>, <<VA>>, <<VA2>>, <<VA, VB>>, <<VA2, VB>>}}

\* the lists of pairwise distinct elements of S no longer than n
RECURSIVE Lists(_, _)
Lists(S, n) ==
    IF n = 0 THEN {<<>>}
    ELSE LET shorter == Lists(S, n - 1)
         IN  shorter \cup {Append(l, x) : l \in shorter, x \in S}

DistinctLists(S, n) == {l \in Lists(S, n) : \A i, j \in 1..Len(l) : i # j => l[i] # l[j]}

----------------------------------------------------------------------------
(* simulate_entity (simulate.py), one generator frame per entity: frame 1  *)
(* is the simulated entity, frames 2.. are its dependencies in the order   *)
(* the ExitStack entered them.  pc names the line the frame executes next. *)

NoExc == [type |-> "none", stmt |-> "none", frame |-> 0]

Frame(ent) == [ent |-> ent, pc |-> "L36", did_drop |-> FALSE]

cur == sim.cur
fr == sim.frames[cur]
Running == sim.result = "running" /\ cur >= 1

Event(op, ok) == [frame |-> cur, op |-> op, ok |-> ok]

Goto(pc) == [sim EXCEPT !.frames[cur].pc = pc]

\* control leaves frame f at a yield: to the caller's block (frame 1) or back
\* to the ExitStack loop of frame 1 (a dependency)
YieldFrom(f) == IF f = 1 THEN 0 ELSE 1

SimInit ==
    /\ \E committed \in SimDBs, entry \in SimDBs :
          sess = [db |-> entry, stack |-> <<committed>>]
    /\ \E entity \in SimPool :
       \E deps \in DistinctLists(SimPool \ {entity}, MaxDeps) :
          sim = [entity |-> entity, deps |-> deps, frames |-> <<Frame(entity)>>,
                 cur |-> 1, i |-> 1, exc |-> NoExc, raised |-> <<>>,
                 entry |-> sess, nstmts |-> 0, result |-> "running"]
    /\ log = <<>>
    /\ run = [pc |-> "idle"]

\* line 36: sess.begin_nested()
L36 ==
    /\ Running /\ fr.pc = "L36"
    /\ sess' = begin_nested(sess)
    /\ sim' = Goto("L42")
    /\ log' = Append(log, Event("begin_nested", TRUE))
    /\ UNCHANGED run

\* lines 38-43: stack.enter_context(mgr) for the next dependency
L42 ==
    /\ Running /\ fr.pc = "L42" /\ cur = 1 /\ sim.i <= Len(sim.deps)
    /\ sim' = [sim EXCEPT !.frames = Append(@, Frame(sim.deps[sim.i])),
                          !.cur = Len(sim.frames) + 1,
                          !.i = @ + 1]
    /\ UNCHANGED <<sess, log, run>>

\* lines 45-47: did_drop = False; sess.begin_nested()
L47 ==
    /\ Running /\ fr.pc = "L42" /\ (cur # 1 \/ sim.i > Len(sim.deps))
    /\ sess' = begin_nested(sess)
    /\ sim' = [sim EXCEPT !.frames[cur].pc = "L48", !.frames[cur].did_drop = FALSE]
    /\ log' = Append(log, Event("begin_nested", TRUE))
    /\ UNCHANGED run

\* lines 48-49: sess.execute(entity.to_sql_statement_drop(cascade=True)); did_drop = True
L48 ==
    /\ Running /\ fr.pc = "L48"
    /\ LET res == ExecDrop(sess.db, fr.ent, TRUE)
           exc == [type |-> res.err, stmt |-> "drop", frame |-> cur]
       IN  /\ sess' = execute(sess, res)
           /\ log' = Append(log, Event("drop", res.ok))
           /\ sim' = IF res.ok
                     THEN [sim EXCEPT !.frames[cur].pc = "L50", !.frames[cur].did_drop = TRUE]
                     ELSE [sim EXCEPT !.frames[cur].pc = "L52", !.exc = exc,
                                      !.raised = Append(@, exc)]
    /\ UNCHANGED run

\* lines 50-51: sess.execute(entity.to_sql_statement_create()); yield sess
L50 ==
    /\ Running /\ fr.pc = "L50"
    /\ LET res == ExecCreate(sess.db, fr.ent)
           exc == [type |-> res.err, stmt |-> "create", frame |-> cur]
       IN  /\ sess' = execute(sess, res)
           /\ log' = IF res.ok
                     THEN log \o <<Event("create", TRUE), Event("yield", TRUE)>>
                     ELSE Append(log, Event("create", FALSE))
           /\ sim' = IF res.ok
                     THEN [sim EXCEPT !.frames[cur].pc = "L51", !.cur = YieldFrom(cur)]
                     ELSE [sim EXCEPT !.frames[cur].pc = "L52", !.exc = exc,
                                      !.raised = Append(@, exc)]
    /\ UNCHANGED run

\* the handler retries whatever failed
L52_RetryAlways ==
    /\ Running /\ fr.pc = "L52"
    /\ sim' = [sim EXCEPT !.frames[cur].pc = "L61", !.exc = NoExc]
    /\ UNCHANGED <<sess, log, run>>

\* the handler forgets to re-raise
L52_Swallow ==
    /\ Running /\ fr.pc = "L52"
    /\ sim' = IF fr.did_drop
              THEN [sim EXCEPT !.frames[cur].pc = "L66", !.exc = NoExc]
              ELSE [sim EXCEPT !.frames[cur].pc = "L61", !.exc = NoExc]
    /\ UNCHANGED <<sess, log, run>>

\* lines 52-57: except: if did_drop: raise
L52 ==
    /\ Running /\ fr.pc = "L52"
    /\ sim' = IF fr.did_drop
              THEN Goto("L66")
              ELSE [sim EXCEPT !.frames[cur].pc = "L61", !.exc = NoExc]
    /\ UNCHANGED <<sess, log, run>>

\* the failed drop is not rolled back before the retry
L61_NoRollback ==
    /\ Running /\ fr.pc = "L61"
    /\ sim' = Goto("L62")
    /\ UNCHANGED <<sess, log, run>>

\* line 61: sess.rollback()
L61 ==
    /\ Running /\ fr.pc = "L61"
    /\ sess' = rollback(sess)
    /\ sim' = Goto("L62")
    /\ log' = Append(log, Event("rollback", TRUE))
    /\ UNCHANGED run

\* line 62: sess.begin_nested()
L62 ==
    /\ Running /\ fr.pc = "L62"
    /\ sess' = begin_nested(sess)
    /\ sim' = Goto("L63")
    /\ log' = Append(log, Event("begin_nested", TRUE))
    /\ UNCHANGED run

\* lines 63-64: sess.execute(entity.to_sql_statement_create()); yield sess
L63 ==
    /\ Running /\ fr.pc = "L63"
    /\ LET res == ExecCreate(sess.db, fr.ent)
           exc == [type |-> res.err, stmt |-> "create", frame |-> cur]
       IN  /\ sess' = execute(sess, res)
           /\ log' = IF res.ok
                     THEN log \o <<Event("create", TRUE), Event("yield", TRUE)>>
                     ELSE Append(log, Event("create", FALSE))
           /\ sim' = IF res.ok
                     THEN [sim EXCEPT !.frames[cur].pc = "L64", !.cur = YieldFrom(cur)]
                     ELSE [sim EXCEPT !.frames[cur].pc = "L66", !.exc = exc,
                                      !.raised = Append(@, exc)]
    /\ UNCHANGED run

\* lines 65-66: finally: sess.rollback()
L66 ==
    /\ Running /\ fr.pc = "L66"
    /\ sess' = rollback(sess)
    /\ sim' = Goto("L67")
    /\ log' = Append(log, Event("rollback", TRUE))
    /\ UNCHANGED run

\* the pc at which a frame suspended at a yield resumes: after the yield when
\* the block completed, in the handler that encloses the yield when the block raised
Resume(pc, exc) ==
    IF exc = NoExc THEN "L66"
    ELSE IF pc = "L51" THEN "L52"
    ELSE "L66"

Suspended == {f \in 2..Len(sim.frames) : sim.frames[f].pc \in {"L51", "L64"}}

\* line 40, leaving the with block: ExitStack.__exit__ closes the entered
\* dependency scopes, last entered first
L67 ==
    /\ Running /\ fr.pc = "L67"
    /\ sim' = IF cur = 1 /\ Suspended # {}
              THEN LET f == CHOOSE g \in Suspended : \A h \in Suspended : h <= g
                   IN  [sim EXCEPT !.frames[f].pc = Resume(@, sim.exc), !.cur = f]
              ELSE Goto("L68")
    /\ UNCHANGED <<sess, log, run>>

\* the outer scope is left open
L68_NoRollback ==
    /\ Running /\ fr.pc = "L68"
    /\ sim' = IF cur = 1
              THEN [sim EXCEPT !.frames[1].pc = "done",
                               !.result = IF sim.exc = NoExc THEN "returned" ELSE "raised"]
              ELSE [sim EXCEPT !.frames[cur].pc = "done",
                               !.cur = 1,
                               !.frames[1].pc = IF @ = "L42" THEN "L67" ELSE @]
    /\ UNCHANGED <<sess, log, run>>

\* lines 67-68: finally: sess.rollback(); the generator ends and the error in
\* flight, if any, leaves it
L68 ==
    /\ Running /\ fr.pc = "L68"
    /\ sess' = rollback(sess)
    /\ log' = Append(log, Event("rollback", TRUE))
    /\ sim' = IF cur = 1
              THEN [sim EXCEPT !.frames[1].pc = "done",
                               !.result = IF sim.exc = NoExc THEN "returned" ELSE "raised"]
              ELSE [sim EXCEPT !.frames[cur].pc = "done",
                               !.cur = 1,
                               \* an error leaving enter_context (line 43) unwinds the with block
                               !.frames[1].pc = IF @ = "L42" THEN "L67" ELSE @]
    /\ UNCHANGED run

\* the caller's block: what runs between __enter__ and __exit__
InBlock == sim.result = "running" /\ cur = 0

Throw(exc) ==
    [sim EXCEPT !.frames[1].pc = Resume(@, exc), !.cur = 1, !.exc = exc,
                !.raised = Append(@, exc)]

\* the block executes a statement on the session; a failing statement raises
UserExecute ==
    /\ InBlock /\ sim.nstmts < MaxUserStmts
    /\ \E e \in SimPool, stmt \in {"create", "drop"} :
          LET res == IF stmt = "create" THEN ExecCreate(sess.db, e)
                     ELSE ExecDrop(sess.db, e, FALSE)
              exc == [type |-> res.err, stmt |-> "user", frame |-> 0]
          IN  /\ sess' = execute(sess, res)
              /\ sim' = IF res.ok THEN [sim EXCEPT !.nstmts = @ + 1] ELSE Throw(exc)
              /\ log' = Append(log, [frame |-> 0, op |-> stmt, ok |-> res.ok])
    /\ UNCHANGED run

\* the block raises an error of its own
UserRaise ==
    /\ InBlock
    /\ sim' = Throw([type |-> "UserError", stmt |-> "user", frame |-> 0])
    /\ log' = Append(log, [frame |-> 0, op |-> "raise", ok |-> FALSE])
    /\ UNCHANGED <<sess, run>>

\* the block completes
UserDone ==
    /\ InBlock
    /\ sim' = [sim EXCEPT !.frames[1].pc = Resume(@, NoExc), !.cur = 1]
    /\ UNCHANGED <<sess, log, run>>

SimNext ==
    \/ L36 \/ L42 \/ L47 \/ L48 \/ L50 \/ L52 \/ L61 \/ L62 \/ L63 \/ L66 \/ L67 \/ L68
    \/ UserExecute \/ UserRaise \/ UserDone

SimSpec == SimInit /\ [][SimNext]_vars

----------------------------------------------------------------------------
(* Claims about simulate_entity (simulate.py) *)

RECURSIVE Filter(_, _)
Filter(s, f) ==
    IF s = <<>> THEN <<>>
    ELSE IF Head(s).frame = f THEN <<Head(s)>> \o Filter(Tail(s), f)
    ELSE Filter(Tail(s), f)

\* what frame f did on the session, in order
FrameLog(f) == [i \in 1..Len(Filter(log, f)) |-> <<Filter(log, f)[i].op, Filter(log, f)[i].ok>>]

Count(s, x) == Cardinality({i \in 1..Len(s) : s[i] = x})

IsPrefix(s, t) == Len(s) <= Len(t) /\ s = SubSeq(t, 1, Len(s))

Exited == sim.result # "running"

\* C1: once the scope of simulate_entity has exited, normally or with an error,
\* the database holds exactly the objects and definitions it held on entry.
C1_RolledBackOnExit == Exited => sess.db = sim.entry.db

\* the caller raised after the entity replaced a live object, a dependency was
\* created and the caller itself changed the database; the entry state held
\* uncommitted work
C1_Witness ==
    /\ sim.result = "raised"
    /\ <<"drop", TRUE>> \in Range(FrameLog(1))
    /\ <<"create", TRUE>> \in Range(FrameLog(1))
    /\ <<"create", TRUE>> \in Range(FrameLog(2))
    /\ \E i \in 1..Len(log) : log[i].frame = 0 /\ log[i].ok
    /\ \E i \in 1..Len(log) : log[i].frame = 0 /\ log[i].op = "raise"
    /\ sim.entry.db # sim.entry.stack[1]
    /\ sess.db = sim.entry.db

B == <<"begin_nested", TRUE>>
R == <<"rollback", TRUE>>
Y == <<"yield", TRUE>>

\* the courses one simulation can take
DropCreate == <<B, B, <<"drop", TRUE>>, <<"create", TRUE>>, Y, R, R>>
DropCreateFails == <<B, B, <<"drop", TRUE>>, <<"create", FALSE>>, R, R>>
RetryCreate == <<B, B, <<"drop", FALSE>>, R, B, <<"create", TRUE>>, Y, R, R>>
RetryCreateFails == <<B, B, <<"drop", FALSE>>, R, B, <<"create", FALSE>>, R, R>>

\* a dependency could not be entered: the entity itself is never attempted
DependencyFails == <<B, R>>

Courses == {DropCreate, DropCreateFails, RetryCreate, RetryCreateFails, DependencyFails}

\* C9: every simulation opens a nested scope and attempts drop(cascade) then
\* create; create is attempted alone, after a rollback and in a fresh nested
\* scope, exactly when the drop failed; after a successful drop a failing
\* create is not retried; nothing else is ever retried.
C9_SingleRetryAfterFailedDrop ==
    \A f \in 1..Len(sim.frames) :
        /\ \E c \in Courses : IsPrefix(FrameLog(f), c)
        /\ sim.frames[f].pc = "done" => FrameLog(f) \in Courses

\* both branches were taken in one run: the entity's drop failed and its create
\* was retried, a dependency's create failed after its drop succeeded
C9_Witness ==
    /\ Exited
    /\ \E f, g \in 1..Len(sim.frames) :
          FrameLog(f) = DropCreateFails /\ FrameLog(g) \in {RetryCreate, RetryCreateFails}

UserErrors == {i \in 1..Len(sim.raised) : sim.raised[i].frame = 0}
CreateErrors == {i \in 1..Len(sim.raised) :
                    sim.raised[i].frame = 1 /\ sim.raised[i].stmt = "create"}

\* C10: a failure of the entity's create and an error raised by the caller's
\* block reach the caller as that same error, after every scope opened was
\* rolled back; an error of the block is never followed by another create of
\* the entity, and the scope is yielded at most once.
C10_ErrorReachesCaller ==
    /\ Count(FrameLog(1), Y) <= 1
    /\ \A i, j \in 1..Len(log) :
          (i < j /\ log[i].frame = 0 /\ ~log[i].ok) => ~(log[j].frame = 1 /\ log[j].op = "create")
    /\ Exited =>
          /\ \A i \in UserErrors \cup CreateErrors :
                sim.result = "raised" /\ sim.exc = sim.raised[i]
          /\ sim.result = "raised" =>
                /\ Count(log, [frame |-> 1, op |-> "rollback", ok |-> TRUE])
                      = Count(log, [frame |-> 1, op |-> "begin_nested", ok |-> TRUE])
                /\ Len(sess.stack) = Len(sim.entry.stack)

\* the block's own statement failed after the entity had been created by the retry
C10_Witness ==
    /\ sim.result = "raised"
    /\ sim.exc.frame = 0 /\ sim.exc.type = "DependentObjectsStillExist"
    /\ IsPrefix(<<B, B, <<"drop", FALSE>>, R, B, <<"create", TRUE>>, Y>>, FrameLog(1))

----------------------------------------------------------------------------
(* simulate_entity (simulate.py) on a session whose rollback() can raise,  *)
(* as it does when the connection is lost or the savepoint is gone         *)

MaxRollbackFailures == 1    \* rollbacks that raise in one simulation

RollbackError == [type |-> "OperationalError", stmt |-> "rollback", frame |-> cur]

RollbackFailures == Cardinality({i \in 1..Len(sim.raised) : sim.raised[i].stmt = "rollback"})

\* sess.rollback() raises: the savepoint is released or stays open, and the
\* error replaces the one in flight, which Python keeps only as its context
RollbackRaises(pc) ==
    /\ RollbackFailures < MaxRollbackFailures
    /\ \E s \in {sess, rollback(sess)} : sess' = s
    /\ log' = Append(log, Event("rollback", FALSE))
    /\ sim' = [sim EXCEPT !.frames[cur].pc = pc, !.exc = RollbackError,
                          !.raised = Append(@, RollbackError)]
    /\ UNCHANGED run

\* line 61 raises inside the except clause: control passes to the finally of line 65
L61_Raises == Running /\ fr.pc = "L61" /\ RollbackRaises("L66")

\* line 66 raises inside the finally clause: control leaves the with block
L66_Raises == Running /\ fr.pc = "L66" /\ RollbackRaises("L67")

\* line 68 raises: the generator ends with the error of the rollback
L68_Raises ==
    /\ Running /\ fr.pc = "L68"
    /\ RollbackFailures < MaxRollbackFailures
    /\ \E s \in {sess, rollback(sess)} : sess' = s
    /\ log' = Append(log, Event("rollback", FALSE))
    /\ sim' = IF cur = 1
              THEN [sim EXCEPT !.frames[1].pc = "done", !.result = "raised",
                               !.exc = RollbackError, !.raised = Append(@, RollbackError)]
              ELSE [sim EXCEPT !.frames[cur].pc = "done", !.cur = 1,
                               !.frames[1].pc = IF @ = "L42" THEN "L67" ELSE @,
                               !.exc = RollbackError, !.raised = Append(@, RollbackError)]
    /\ UNCHANGED run

FaultNext == SimNext \/ L61_Raises \/ L66_Raises \/ L68_Raises

FaultSpec == SimInit /\ [][FaultNext]_vars

\* the errors that were not handled inside simulate_entity: every error but
\* a failed drop, which line 52 catches
Unhandled == {i \in 1..Len(sim.raised) : sim.raised[i].stmt # "drop"}

\* the error that started the unwinding
Original == sim.raised[CHOOSE i \in Unhandled : \A j \in Unhandled : i <= j]

\* a rollback raised while another error was unwinding the scope
RollbackFailedUnwinding ==
    \E i, j \in Unhandled : i < j /\ sim.raised[j].stmt = "rollback"

\* C11: when a rollback raises while simulate_entity unwinds from an error,
\* the caller still receives the error that caused the unwinding.
C11_RollbackFailureKeepsOriginalError ==
    Exited /\ RollbackFailedUnwinding => sim.result = "raised" /\ sim.exc = Original

----------------------------------------------------------------------------
(* Catalog queries and dependency discovery *)

\* The({F(x) : x \in {e}}) is F of the value of e, e being evaluated once
The(S) == CHOOSE x \in S : TRUE

\* PGView.from_database / PGMaterializedView.from_database
from_database(db, cls, schema) ==
    The({[i \in 1..Len(rows) |->
             ReplaceableEntity(cls, rows[i].schema, rows[i].name, rows[i].src)]
         : rows \in {RowOrder({r \in db : r.cls = cls /\ Like(schema, r.schema)})}})

\* the DETAIL lines of "cannot drop ... because other objects depend on it":
\* the dependent objects, each after the objects it depends on
RECURSIVE DetailRecords(_)
DetailRecords(pending) ==
    IF pending = {} THEN <<>>
    ELSE The({<<r>> \o DetailRecords(pending \ {r})
              : r \in {CHOOSE x \in pending :
                          Refs(x.schema, x.src) \cap Keys(pending) \subseteq {RowKey(x)}}})

Reverse(s) == [i \in 1..Len(s) |-> s[Len(s) + 1 - i]]

\* the first occurrence of every identity, in order
RECURSIVE Dedup(_, _)
Dedup(es, seen) ==
    IF es = <<>> THEN <<>>
    ELSE IF identity(Head(es)) \in seen THEN Dedup(Tail(es), seen)
    ELSE <<Head(es)>> \o Dedup(Tail(es), seen \cup {identity(Head(es))})

\* the database quotes an identifier that is not all lower case letters
QuoteIdent(name) ==
    IF Range(name) \subseteq {"a", "b", "c", "d", "e", "p", "x"} THEN name
    ELSE <<"\"">> \o name \o <<"\"">>

\* the schema on the search path, "public": the database names its objects
\* without the schema
VisibleSchema == <<"p">>

\* one DETAIL line, "<kind> <name> depends on ..."
DetailLine(r) ==
    [kind |-> IF r.cls = "PGView" THEN "view" ELSE "materialized view",
     name |-> IF r.schema = VisibleSchema THEN QuoteIdent(r.name)
              ELSE QuoteIdent(r.schema) \o <<".">> \o QuoteIdent(r.name)]

\* the DETAIL of the error the drop of the object with key k raises
ErrorDetail(db, k) ==
    The({[i \in 1..Len(recs) |-> DetailLine(recs[i])]
         : recs \in {DetailRecords({r \in db : RowKey(r) \in Closure(db, {k}) \ {k}})}})

RECURSIVE LStripQuotes(_)
LStripQuotes(t) == IF t # <<>> /\ Head(t) = "\"" THEN LStripQuotes(Tail(t)) ELSE t

RECURSIVE RStripQuotes(_)
RStripQuotes(t) ==
    IF t # <<>> /\ t[Len(t)] = "\"" THEN RStripQuotes(SubSeq(t, 1, Len(t) - 1)) ELSE t

strip_double_quotes(sql) == Strip(LStripQuotes(Strip(RStripQuotes(Strip(sql)))))

\* index of the first "." of t, Len(t) + 1 when there is none
RECURSIVE DotAt(_, _)
DotAt(t, i) == IF i > Len(t) \/ t[i] = "." THEN i ELSE DotAt(t, i + 1)

\* lines 92-111: the entity a DETAIL line names, without definition; a line
\* no template matches names none
ParseLine(drec) ==
    IF drec.kind \notin {"view", "materialized view"} THEN <<>>
    ELSE The({<<ReplaceableEntity(
                   IF drec.kind = "view" THEN "PGView" ELSE "PGMaterializedView",
                   strip_double_quotes(IF dot <= Len(drec.name)
                                       THEN SubSeq(drec.name, 1, dot - 1) ELSE VisibleSchema),
                   strip_double_quotes(IF dot <= Len(drec.name)
                                       THEN SubSeq(drec.name, dot + 1, Len(drec.name))
                                       ELSE drec.name),
                   <<>>)>>
              : dot \in {DotAt(drec.name, 1)}})

\* lines 86-111: dependent_objects
RECURSIVE ParseLines(_)
ParseLines(dependency_records) ==
    IF dependency_records = <<>> THEN <<>>
    ELSE ParseLine(Head(dependency_records)) \o ParseLines(Tail(dependency_records))

\* the list is not reversed
ParseRecords_NoReverse(dependency_records) == Dedup(ParseLines(dependency_records), {})

\* the identity is kept where the detail names it first
ParseRecords_DedupThenReverse(dependency_records) ==
    Reverse(Dedup(ParseLines(dependency_records), {}))

\* lines 86-122: the entities the DETAIL lines name, last line first, an
\* identity once
ParseRecords(dependency_records) == Dedup(Reverse(ParseLines(dependency_records)), {})

ParseDependents(db, k) == The({ParseRecords(detail) : detail \in {ErrorDetail(db, k)}})

\* the probing drop is not undone
get_dependent_entities_NoRollback(s, entity) ==
    The({[s |-> execute(s1, res),
          detail |-> IF res.err = "DependentObjectsStillExist"
                     THEN ErrorDetail(s1.db, DbKey(entity)) ELSE <<>>,
          dependents |-> IF res.err = "DependentObjectsStillExist"
                         THEN ParseDependents(s1.db, DbKey(entity)) ELSE <<>>]
         : s1 \in {begin_nested(s)}, res \in {ExecDrop(s.db, entity, FALSE)}})

\* get_dependent_entities: probe with a drop in a nested transaction that is
\* always rolled back, read the dependents off the error message
get_dependent_entities(s, entity) ==
    The({[s |-> rollback(execute(s1, res)),
          detail |-> IF res.err = "DependentObjectsStillExist"
                     THEN ErrorDetail(s1.db, DbKey(entity)) ELSE <<>>,
          dependents |-> IF res.err = "DependentObjectsStillExist"
                         THEN ParseDependents(s1.db, DbKey(entity)) ELSE <<>>]
         : s1 \in {begin_nested(s)}, res \in {ExecDrop(s.db, entity, FALSE)}})

\* execute the drop of every entity of es in turn, stopping at the first error
RECURSIVE DropAll(_, _)
DropAll(s, es) ==
    IF es = <<>> THEN [ok |-> TRUE, s |-> s, err |-> "none"]
    ELSE The({IF res.ok THEN The({DropAll(s1, Tail(es)) : s1 \in {execute(s, res)}})
              ELSE [ok |-> FALSE, s |-> s, err |-> res.err]
              : res \in {ExecDrop(s.db, Head(es), FALSE)}})

\* defer_dependent up to its yield; when a drop raises, its finally has run
defer_dependent(s, entity) ==
    The({The({IF dropped.ok THEN dropped ELSE [dropped EXCEPT !.s = rollback(dropped.s)]
              : dropped \in {The({DropAll(s1, found.dependents)
                                  : s1 \in {begin_nested(found.s)}})}})
         : found \in {get_dependent_entities(s, entity)}})

----------------------------------------------------------------------------
(* simulate_entity of replaceable_entity.py, as the diff engine uses it:   *)
(* the session when the scope is entered, and when it is left              *)

Raised(s, err) == [ok |-> FALSE, s |-> s, err |-> err]

Entered(s) == [ok |-> TRUE, s |-> s, err |-> "none"]

\* leave the scopes of n dependencies, each its defer_dependent and its own
RECURSIVE ExitDependencies(_, _)
ExitDependencies(s, n) ==
    IF n = 0 THEN s
    ELSE The({ExitDependencies(s1, n - 1) : s1 \in {rollback(rollback(s))}})

\* lines 50-51 with the scopes of n dependencies open below: defer the
\* dependents, create or replace the entity; a failure has run the finally
\* of defer_dependent and left the dependencies
CreateDeferred(s, entity, n) ==
    The({IF ~deferred.ok THEN Raised(ExitDependencies(deferred.s, n), deferred.err)
         ELSE The({IF ~created.ok
                   THEN Raised(ExitDependencies(rollback(deferred.s), n), created.err)
                   ELSE Entered(execute(deferred.s, created))
                   : created \in {ExecCreateOrReplace(deferred.s.db, entity)}})
         : deferred \in {defer_dependent(s, entity)}})

\* lines 40-54 for an entity without dependencies of its own, up to the yield
EnterScope(s, entity) ==
    The({IF entered.ok THEN entered ELSE Raised(rollback(entered.s), entered.err)
         : entered \in {The({CreateDeferred(s1, entity, 0) : s1 \in {begin_nested(s)}})}})

\* lines 43-48: enter the dependencies in order; when one raises, the
\* ExitStack leaves those entered before it
RECURSIVE EnterDependencies(_, _, _)
EnterDependencies(s, deps, n) ==
    IF n = Len(deps) THEN Entered(s)
    ELSE The({IF entered.ok THEN EnterDependencies(entered.s, deps, n + 1)
              ELSE Raised(ExitDependencies(entered.s, n), entered.err)
              : entered \in {EnterScope(s, deps[n + 1])}})

\* lines 40-54 up to the yield
simulate_entity_enter(s, entity, dependencies) ==
    The({IF ~stacked.ok THEN Raised(rollback(stacked.s), stacked.err)
         ELSE The({IF entered.ok THEN entered
                   ELSE Raised(rollback(entered.s), entered.err)
                   : entered \in {CreateDeferred(stacked.s, entity, Len(dependencies))}})
         : stacked \in {The({EnterDependencies(s1, dependencies, 0)
                             : s1 \in {begin_nested(s)}})}})

\* the scope is committed when it is left
simulate_entity_exit_Commit(s, dependencies) == [db |-> s.db, stack |-> <<s.db>>]

\* the scope is left, normally or by an error of its block: defer_dependent's
\* finally, the ExitStack, line 54
simulate_entity_exit(s, dependencies) ==
    The({rollback(s1) : s1 \in {ExitDependencies(rollback(s), Len(dependencies))}})

----------------------------------------------------------------------------
(* solve_resolution_order (replaceable_entity.py) *)

\* lines 71-74 and 86-89: the entity joins the resolved ones when its
\* simulation raises no database error
TryResolve(acc, entity, deps) ==
    The({IF entered.ok
         THEN [s |-> simulate_entity_exit(entered.s, deps),
               resolved |-> Append(acc.resolved, entity)]
         ELSE [s |-> entered.s, resolved |-> acc.resolved]
         : entered \in {simulate_entity_enter(acc.s, entity, deps)}})

\* one "for entity in entities" loop from position i on; withDeps: only the
\* entities not yet resolved, on top of the resolved ones
RECURSIVE ResolveLoop(_, _, _, _)
ResolveLoop(acc, entities, i, withDeps) ==
    IF i > Len(entities) THEN acc
    ELSE IF withDeps /\ entities[i] \in Range(acc.resolved)
         THEN ResolveLoop(acc, entities, i + 1, withDeps)
    ELSE The({ResolveLoop(next, entities, i + 1, withDeps)
              : next \in {TryResolve(acc, entities[i],
                                     IF withDeps THEN acc.resolved ELSE <<>>)}})

\* "for _ in range(len(entities))": repeat the loop until a round resolves nothing
RECURSIVE ResolveRounds(_, _, _)
ResolveRounds(acc, entities, rounds) ==
    IF rounds = 0 THEN acc
    ELSE The({IF Len(next.resolved) = Len(acc.resolved) THEN next
              ELSE ResolveRounds(next, entities, rounds - 1)
              : next \in {ResolveLoop(acc, entities, 1, TRUE)}})

\* the entities no round could resolve go last, in reverse
RECURSIVE AppendMissing_Reversed(_, _)
AppendMissing_Reversed(resolved, entities) ==
    IF entities = <<>> THEN resolved
    ELSE AppendMissing_Reversed(IF entities[Len(entities)] \in Range(resolved) THEN resolved
                                ELSE Append(resolved, entities[Len(entities)]),
                                SubSeq(entities, 1, Len(entities) - 1))

\* lines 95-97: the entities no round could resolve go last
RECURSIVE AppendMissing(_, _)
AppendMissing(resolved, entities) ==
    IF entities = <<>> THEN resolved
    ELSE AppendMissing(IF Head(entities) \in Range(resolved) THEN resolved
                       ELSE Append(resolved, Head(entities)),
                       Tail(entities))

solve_resolution_order(s, entities) ==
    The({The({[s |-> stacked.s, resolved |-> AppendMissing(stacked.resolved, entities)]
              : stacked \in {ResolveRounds(alone, entities, Len(entities))}})
         : alone \in {ResolveLoop([s |-> s, resolved |-> <<>>], entities, 1, FALSE)}})

----------------------------------------------------------------------------
(* get_database_definition and get_required_migration_op *)

IdentityLess(x, y) == StrLess(identity(x), identity(y))

None == [cls |-> "None"]

Failed(s, err) == [ok |-> FALSE, s |-> s, err |-> err, entity |-> None]

\* lines 165-168: the first position at which the listing with the entity
\* differs from the listing without it
RECURSIVE FirstDifference(_, _, _)
FirstDifference(without, with, i) ==
    IF i > Len(without) /\ i > Len(with) THEN [ok |-> FALSE, err |-> "UnreachableException"]
    ELSE IF i > Len(without) THEN [ok |-> TRUE, entity |-> with[i]]
    ELSE IF i > Len(with) THEN [ok |-> FALSE, err |-> "AttributeError"]
    ELSE IF identity(without[i]) # identity(with[i]) THEN [ok |-> TRUE, entity |-> with[i]]
    ELSE FirstDifference(without, with, i + 1)

\* lines 151-157: simulate, drop self, list what remains, leave the scope
ListWithoutSelf(s, self, dependencies) ==
    The({IF ~first.ok THEN [ok |-> FALSE, s |-> first.s, err |-> first.err, listed |-> <<>>]
         ELSE The({[ok |-> dropped.ok,
                    s |-> simulate_entity_exit(execute(first.s, dropped), dependencies),
                    err |-> dropped.err,
                    listed |-> IF dropped.ok
                               THEN SortSeq(from_database(dropped.db, self.cls, self.schema),
                                            IdentityLess)
                               ELSE <<>>]
                   : dropped \in {ExecDrop(first.s.db, self, FALSE)}})
         : first \in {simulate_entity_enter(s, self, dependencies)}})

\* lines 159-162: simulate, list everything, leave the scope
ListWithSelf(s, self, dependencies) ==
    The({IF ~second.ok THEN [ok |-> FALSE, s |-> second.s, err |-> second.err, listed |-> <<>>]
         ELSE [ok |-> TRUE, s |-> simulate_entity_exit(second.s, dependencies), err |-> "none",
               listed |-> SortSeq(from_database(second.s.db, self.cls, self.schema),
                                  IdentityLess)]
         : second \in {simulate_entity_enter(s, self, dependencies)}})

get_database_definition(s, self, dependencies) ==
    The({IF ~db_entities.ok THEN Failed(db_entities.s, db_entities.err)
         ELSE The({IF ~all_w_self.ok THEN Failed(all_w_self.s, all_w_self.err)
                   ELSE The({IF ~found.ok THEN Failed(all_w_self.s, found.err)
                             ELSE [ok |-> TRUE, s |-> all_w_self.s, err |-> "none",
                                   entity |-> found.entity]
                             : found \in {FirstDifference(db_entities.listed,
                                                          all_w_self.listed, 1)}})
                   : all_w_self \in {ListWithSelf(db_entities.s, self, dependencies)}})
         : db_entities \in {ListWithoutSelf(s, self, dependencies)}})

\* the definitions are not compared
RECURSIVE RequiredOp_IdentityOnly(_, _, _)
RequiredOp_IdentityOnly(db_def, entities_in_database, i) ==
    IF i > Len(entities_in_database) THEN "create"
    ELSE IF identity(db_def) = identity(entities_in_database[i]) THEN "replace"
    ELSE RequiredOp_IdentityOnly(db_def, entities_in_database, i + 1)

\* lines 211-222: the op the first live entity with the rendered identity calls for
RECURSIVE RequiredOp(_, _, _)
RequiredOp(db_def, entities_in_database, i) ==
    IF i > Len(entities_in_database) THEN "create"
    ELSE IF /\ identity(db_def) = identity(entities_in_database[i])
            /\ normalize_whitespace(db_def.definition)
                  = normalize_whitespace(entities_in_database[i].definition)
         THEN "none"
    ELSE IF identity(db_def) = identity(entities_in_database[i]) THEN "replace"
    ELSE RequiredOp(db_def, entities_in_database, i + 1)

get_required_migration_op(s, self, dependencies) ==
    The({[ok |-> db_def.ok, s |-> db_def.s, err |-> db_def.err,
          op |-> IF db_def.ok THEN RequiredOp(db_def.entity, entities_in_database, 1)
                 ELSE "none"]
         : entities_in_database \in {from_database(s.db, self.cls, self.schema)},
           db_def \in {get_database_definition(s, self, dependencies)}})

----------------------------------------------------------------------------
(* compare_registered_entities: one reconciliation run, step by step, then *)
(* the migration it produced applied to the database and the run repeated  *)

MaxDeclared == 2    \* longest list of declared entities

MB == ReplaceableEntity("PGMaterializedView", <<"p">>, <<"B">>, <<"1", "\n", "a">>)
VDx == ReplaceableEntity("PGView", <<"d">>, <<"x">>, <<"2">>)

DiffPool == {VA, VA2, VB, VBad, MB, VDx}

DiffDBs == {Created({}, es) : es \in {<<>>, <<VA>>, <<VA2>>, <<VA, VB>>, <<VA, MB>>,
                                     <<VDx>>, <<VA2, VB, VDx>>}}

\* register_entities(entities, schemas, exclude_schemas) and the sqla_schemas
\* of the comparator call; an absent list is the empty list
NoSchema == <<"None">>

DiffConfigs ==
    {[schemas |-> <<>>, exclude_schemas |-> <<>>, sqla_schemas |-> <<>>],
     [schemas |-> <<<<"p">>, <<"d">>>>, exclude_schemas |-> <<>>, sqla_schemas |-> <<NoSchema>>],
     [schemas |-> <<<<"_">>, <<"d">>>>, exclude_schemas |-> <<>>, sqla_schemas |-> <<>>],
     [schemas |-> <<<<"d">>>>, exclude_schemas |-> <<<<"d">>>>,
      sqla_schemas |-> <<NoSchema, <<"p">>>>],
     [schemas |-> <<<<"_">>>>, exclude_schemas |-> <<<<"d">>>>, sqla_schemas |-> <<>>]}

\* the texts a declared definition may be changed to
Definitions == {<<"1">>, <<"2">>, <<"1", " ", "a">>, <<"1", "\n", "a">>, <<"2", " ", "a">>, <<"!">>}

Orders(S) ==
    {f \in [1..Cardinality(S) -> S] : \A i, j \in 1..Cardinality(S) : i # j => f[i] # f[j]}

Begin(entities, config, round, changed, was) ==
    [pc |-> "start", entities |-> entities, config |-> config, round |-> round,
     changed |-> changed, was |-> was, connected |-> FALSE, observed_schemas |-> <<>>,
     ordered_entities |-> <<>>, k |-> 1, has_create_or_update_op |-> <<>>,
     local_entities |-> <<>>, ops |-> <<>>, given |-> <<>>, err |-> "none"]

DiffInit ==
    /\ \E live \in DiffDBs : sess = Session(live)
    /\ \E entities \in DistinctLists(DiffPool, MaxDeclared), config \in DiffConfigs :
          run = Begin(entities, config, "first", 0, <<>>)
    /\ sim = [result |-> "none"]
    /\ log = <<>>

\* connection.begin() ... transaction.rollback(): what the connection did
\* since begin() is undone
transaction_rollback(s) == Session(s.stack[1])

Fail(err) == [run EXCEPT !.pc = "failed", !.err = err]

\* lines 352-357
Duplicated(entities) ==
    \E i, j \in 1..Len(entities) : i # j /\ identity(entities[i]) = identity(entities[j])

\* lines 359-372; set() leaves the order of the schemas open
ObservedSchemas(entities, config) ==
    (Range(config.schemas) \cup (Range(config.sqla_schemas) \ {NoSchema})
        \cup {entities[i].schema : i \in 1..Len(entities)})
    \ Range(config.exclude_schemas)

\* the identities are not compared
Start_Unchecked ==
    /\ run.pc = "start"
    /\ \E order \in Orders(ObservedSchemas(run.entities, run.config)) :
          run' = [run EXCEPT !.pc = "resolve", !.observed_schemas = order]
    /\ UNCHANGED <<sess, sim, log>>

\* lines 350-372: the duplicate check and the schemas to observe
Start ==
    /\ run.pc = "start"
    /\ \/ /\ Duplicated(run.entities)
          /\ run' = Fail("DuplicateRegistration")
       \/ /\ ~Duplicated(run.entities)
          /\ \E order \in Orders(ObservedSchemas(run.entities, run.config)) :
                run' = [run EXCEPT !.pc = "resolve", !.observed_schemas = order]
    /\ UNCHANGED <<sess, sim, log>>

\* lines 374-382: connect, solve the resolution order, roll back
Resolve ==
    /\ run.pc = "resolve"
    /\ \E solved \in {solve_resolution_order(sess, run.entities)} :
          /\ run' = [run EXCEPT !.pc = "classify", !.connected = TRUE,
                                !.ordered_entities = solved.resolved]
          /\ sess' = transaction_rollback(solved.s)
    /\ UNCHANGED <<sim, log>>

Op(kind, target) == [kind |-> kind, target |-> target]

\* lines 403-414: the entity's op, then its rendering for the drop detection
ClassifyEntity(s, entity, dependencies) ==
    The({IF ~maybe_op.ok
         THEN [ok |-> FALSE, s |-> maybe_op.s, err |-> maybe_op.err, op |-> "none",
               entity |-> None, dependencies |-> dependencies]
         ELSE The({[ok |-> local_db_def.ok, s |-> local_db_def.s, err |-> local_db_def.err,
                    op |-> maybe_op.op, entity |-> local_db_def.entity,
                    dependencies |-> dependencies]
                   : local_db_def \in {get_database_definition(maybe_op.s, entity,
                                                               dependencies)}})
         : maybe_op \in {get_required_migration_op(s, entity, dependencies)}})

\* the op is put in front of the list
Classify_Prepend ==
    /\ run.pc = "classify" /\ run.k <= Len(run.ordered_entities)
    /\ \E entity \in {run.ordered_entities[run.k]} :
       \E c \in {ClassifyEntity(sess, entity, run.has_create_or_update_op)} :
          /\ sess' = transaction_rollback(c.s)
          /\ run' = IF ~c.ok THEN [Fail(c.err) EXCEPT !.given = Append(@, c.dependencies)]
                    ELSE [run EXCEPT
                             !.k = @ + 1,
                             !.given = Append(@, c.dependencies),
                             !.local_entities = Append(@, c.entity),
                             !.ops = IF c.op = "none" THEN @ ELSE <<Op(c.op, entity)>> \o @,
                             !.has_create_or_update_op =
                                 IF c.op = "none" THEN @ ELSE Append(@, entity)]
    /\ UNCHANGED <<sim, log>>

\* a database error skips the entity, as the resolver does
Classify_Tolerant ==
    /\ run.pc = "classify" /\ run.k <= Len(run.ordered_entities)
    /\ \E entity \in {run.ordered_entities[run.k]} :
       \E c \in {ClassifyEntity(sess, entity, run.has_create_or_update_op)} :
          /\ sess' = transaction_rollback(c.s)
          /\ run' = IF ~c.ok THEN [run EXCEPT !.k = @ + 1]
                    ELSE [run EXCEPT
                             !.k = @ + 1,
                             !.given = Append(@, c.dependencies),
                             !.local_entities = Append(@, c.entity),
                             !.ops = IF c.op = "none" THEN @ ELSE Append(@, Op(c.op, entity)),
                             !.has_create_or_update_op =
                                 IF c.op = "none" THEN @ ELSE Append(@, entity)]
    /\ UNCHANGED <<sim, log>>

\* every classified entity joins the dependencies of the later ones
Classify_AllDependencies ==
    /\ run.pc = "classify" /\ run.k <= Len(run.ordered_entities)
    /\ \E entity \in {run.ordered_entities[run.k]} :
       \E c \in {ClassifyEntity(sess, entity, run.has_create_or_update_op)} :
          /\ sess' = transaction_rollback(c.s)
          /\ run' = IF ~c.ok THEN [Fail(c.err) EXCEPT !.given = Append(@, c.dependencies)]
                    ELSE [run EXCEPT
                             !.k = @ + 1,
                             !.given = Append(@, c.dependencies),
                             !.local_entities = Append(@, c.entity),
                             !.ops = IF c.op = "none" THEN @ ELSE Append(@, Op(c.op, entity)),
                             !.has_create_or_update_op = Append(@, entity)]
    /\ UNCHANGED <<sim, log>>

\* lines 392-430: the loop body for the next entity of ordered_entities
Classify ==
    /\ run.pc = "classify" /\ run.k <= Len(run.ordered_entities)
    /\ \E entity \in {run.ordered_entities[run.k]} :
       \E c \in {ClassifyEntity(sess, entity, run.has_create_or_update_op)} :
          /\ sess' = transaction_rollback(c.s)
          /\ run' = IF ~c.ok THEN [Fail(c.err) EXCEPT !.given = Append(@, c.dependencies)]
                    ELSE [run EXCEPT
                             !.k = @ + 1,
                             !.given = Append(@, c.dependencies),
                             !.local_entities = Append(@, c.entity),
                             !.ops = IF c.op = "none" THEN @ ELSE Append(@, Op(c.op, entity)),
                             !.has_create_or_update_op =
                                 IF c.op = "none" THEN @ ELSE Append(@, entity)]
    /\ UNCHANGED <<sim, log>>

\* lines 449-455: a Drop for every listed entity no local entity matches
RECURSIVE DropsFor(_, _)
DropsFor(db_entities, local_entities) ==
    IF db_entities = <<>> THEN <<>>
    ELSE (IF \E i \in 1..Len(local_entities) :
                 identity(Head(db_entities)) = identity(local_entities[i])
          THEN <<>> ELSE <<Op("drop", Head(db_entities))>>)
         \o DropsFor(Tail(db_entities), local_entities)

\* lines 441-446: every entity class, every observed schema
RECURSIVE DetectedDrops(_, _, _, _)
DetectedDrops(db, c, i, r) ==
    IF c > Len(Subclasses) THEN <<>>
    ELSE IF i > Len(r.observed_schemas) THEN DetectedDrops(db, c + 1, 1, r)
    ELSE DropsFor(from_database(db, Subclasses[c], r.observed_schemas[i]), r.local_entities)
         \o DetectedDrops(db, c, i + 1, r)

\* lines 432-463
DetectDrops ==
    /\ run.pc = "classify" /\ run.k > Len(run.ordered_entities)
    /\ run' = [run EXCEPT !.pc = "done", !.ops = @ \o DetectedDrops(sess.db, 1, 1, run)]
    /\ sess' = transaction_rollback(sess)
    /\ UNCHANGED <<sim, log>>

\* the implementations of the ops, lines 258-274
Implementation(db, op) ==
    IF op.kind = "create" THEN ExecCreate(db, op.target)
    ELSE IF op.kind = "drop" THEN ExecDrop(db, op.target, FALSE)
    ELSE ExecCreateOrReplace(db, op.target)

RECURSIVE Upgrade(_, _)
Upgrade(db, ops) ==
    IF ops = <<>> THEN Ok(db)
    ELSE The({IF res.ok THEN Upgrade(res.db, Tail(ops)) ELSE res
              : res \in {Implementation(db, Head(ops))}})

\* the migration of the run is applied in one transaction: committed when
\* every op succeeds, rolled back when one fails
Apply ==
    /\ run.pc = "done" /\ run.round = "first"
    /\ \E res \in {Upgrade(sess.db, run.ops)} :
          IF res.ok
          THEN sess' = Session(res.db) /\ run' = [run EXCEPT !.pc = "applied"]
          ELSE sess' = sess /\ run' = [run EXCEPT !.pc = "apply_failed", !.err = res.err]
    /\ UNCHANGED <<sim, log>>

\* reconciliation is run again with the same declarations
Rerun ==
    /\ run.pc = "applied"
    /\ run' = Begin(run.entities, run.config, "again", 0, <<>>)
    /\ UNCHANGED <<sess, sim, log>>

\* the definition of one declared entity is assigned a different text, and
\* reconciliation is run once more
ChangeDefinition ==
    /\ run.pc = "done" /\ run.round = "again"
    /\ \E i \in 1..Len(run.entities), text \in Definitions :
          /\ text # run.entities[i].definition
          /\ run' = Begin([run.entities EXCEPT ![i].definition = text], run.config,
                          "changed", i, run.entities[i].definition)
    /\ UNCHANGED <<sess, sim, log>>

DiffNext == Start \/ Resolve \/ Classify \/ DetectDrops \/ Apply \/ Rerun \/ ChangeDefinition

DiffSpec == DiffInit /\ [][DiffNext]_vars

----------------------------------------------------------------------------
(* Properties of the reconciliation run *)

\* the database the run compares against: what is committed
Committed == sess.stack[1]

\* the live entities of a class in a schema
Live(cls, schema) ==
    {ReplaceableEntity(r.cls, r.schema, r.name, r.src)
        : r \in {x \in Committed : x.cls = cls /\ x.schema = schema}}

\* the op the run holds for a declared entity
KindFor(entity) ==
    IF \E i \in 1..Len(run.ops) : run.ops[i].kind # "drop" /\ run.ops[i].target = entity
    THEN (CHOOSE o \in Range(run.ops) : o.kind # "drop" /\ o.target = entity).kind
    ELSE "none"

InRun == run.pc \in {"classify", "done", "failed"}

\* C2: every classified entity E with rendered form R got no op when a live
\* entity of E's class and schema has R's identity and R's definition up to
\* whitespace, Replace when a live entity has R's identity and another
\* definition, Create when no live entity has R's identity.
C2_Classification ==
    InRun =>
      \A j \in 1..Len(run.local_entities) :
         LET declared == run.ordered_entities[j]
             rendered == run.local_entities[j]
             named == {x \in Live(declared.cls, declared.schema)
                          : identity(x) = identity(rendered)}
             same == {x \in named : normalize_whitespace(x.definition)
                                       = normalize_whitespace(rendered.definition)}
         IN  /\ same # {} => KindFor(declared) = "none"
             /\ named # {} /\ same = {} => KindFor(declared) = "replace"
             /\ named = {} => KindFor(declared) = "create"

C2_Witness ==
    /\ run.pc = "done" /\ run.round = "first" /\ Len(run.local_entities) = 2
    /\ KindFor(run.ordered_entities[1]) = "replace"
    /\ KindFor(run.ordered_entities[2]) = "none"
    /\ run.ordered_entities[2].definition # <<>>

Ended == run.pc \in {"done", "failed"}

\* the ops of a kind, in order
RECURSIVE OfKinds(_, _)
OfKinds(ops, kinds) ==
    IF ops = <<>> THEN <<>>
    ELSE (IF Head(ops).kind \in kinds THEN <<Head(ops)>> ELSE <<>>) \o OfKinds(Tail(ops), kinds)

\* the run after the one whose ops were applied, with the same declarations,
\* ends with no op
Idempotent == run.round = "again" /\ Ended => run.pc = "done" /\ run.ops = <<>>

OneReplace == run.pc = "done" /\ run.ops = <<Op("replace", run.entities[run.changed])>>

\* C3 (as stated): the ops of a run applied, the next run with the same
\* declarations produces no op; one declared definition then changed, the
\* run after that produces exactly one Replace, for that entity, and no
\* Create or Drop.
C3_IdempotentThenOneReplace == Idempotent /\ (run.round = "changed" /\ Ended => OneReplace)

\* the database accepts the changed definition and renders it differently,
\* whitespace aside, from the definition it holds
RendersAnew ==
    LET changed == run.entities[run.changed]
    IN  /\ Parses(changed.definition)
        /\ Refs(changed.schema, changed.definition) \subseteq Keys(Committed) \ {DbKey(changed)}
        /\ normalize_whitespace(DbSource(changed.definition))
              # normalize_whitespace(DbSource(run.was))

\* C3 (amended): ... one declared definition then changed to a query the
\* database accepts and renders differently, whitespace aside, the run after
\* that produces exactly one Replace, for that entity, and no Create or Drop.
C3_IdempotentThenOneReplaceIfRenderedAnew ==
    Idempotent /\ (run.round = "changed" /\ Ended /\ RendersAnew => OneReplace)

C3_Witness ==
    /\ run.round = "changed" /\ run.pc = "done" /\ RendersAnew /\ OneReplace
    /\ Len(run.entities) = 2 /\ Cardinality(Committed) = 2

\* the live entities of every class in the observed schemas
LiveObserved ==
    UNION {Live(cls, schema) : cls \in Range(Subclasses), schema \in Range(run.observed_schemas)}

DropsOf(x) ==
    Cardinality({i \in 1..Len(run.ops) :
                    run.ops[i].kind = "drop" /\ identity(run.ops[i].target) = identity(x)})

\* C4: at the end of a run every live entity of an observed schema has one
\* Drop op when its identity is that of no rendered declared entity and none
\* when it is; with nothing declared there are as many Drop ops as live
\* entities in the observed schemas.
C4_OneDropPerUnmatchedLiveEntity ==
    run.pc = "done" =>
        /\ \A x \in LiveObserved :
              DropsOf(x) = IF \E i \in 1..Len(run.local_entities) :
                                  identity(run.local_entities[i]) = identity(x)
                           THEN 0 ELSE 1
        /\ run.entities = <<>> => Len(OfKinds(run.ops, {"drop"})) = Cardinality(LiveObserved)

\* position of an entity in the resolver's output
Position(entity) == CHOOSE i \in 1..Len(run.ordered_entities) : run.ordered_entities[i] = entity

\* C5: Create and Replace ops stand in the order of their entities in the
\* resolver's output, and no Drop op stands before a Create or Replace op.
C5_ResolverOrderThenDrops ==
    InRun =>
      \A i, j \in 1..Len(run.ops) :
         i < j =>
           /\ run.ops[i].kind = "drop" => run.ops[j].kind = "drop"
           /\ run.ops[i].kind # "drop" /\ run.ops[j].kind # "drop"
                 => Position(run.ops[i].target) < Position(run.ops[j].target)

C5_Witness ==
    /\ run.pc = "done"
    /\ Len(OfKinds(run.ops, {"create", "replace"})) = 2
    /\ Len(OfKinds(run.ops, {"drop"})) >= 1
    /\ run.ordered_entities # run.entities

\* test/alembic_config/env.py, include_object: the host rejects the entities
\* whose name holds the excluded marker (here "x")
include_object(entity) == "x" \notin Range(entity.signature)

\* C6: the run holds no op for an entity the host's filter rejects.
C6_RejectedEntitiesHaveNoOp ==
    InRun => \A i \in 1..Len(run.ops) : include_object(run.ops[i].target)

Unparseable(entity) == ~Parses(entity.definition)

Dangling(entity) ==
    \E ref \in Refs(entity.schema, entity.definition) :
       \/ ref = DbKey(entity)
       \/ /\ ref \notin Keys(Committed)
          /\ \A i \in 1..Len(run.entities) : DbKey(run.entities[i]) # ref

----------------------------------------------------------------------------
(* simulate_entity (simulate.py) as solve_resolution_order of depends.py   *)
(* and dependency_resolution.py uses it: the session when the scope is     *)
(* entered and when it is left                                             *)

\* lines 45-66 up to the yield: drop with cascade and create, or create alone
\* after a failed drop; a failure has run the finally of line 65
TryCreate(s, entity) ==
    The({IF dropped.ok
         THEN The({IF created.ok THEN Entered(execute(s1, created))
                   ELSE Raised(rollback(execute(s1, dropped)), created.err)
                   : created \in {ExecCreate(dropped.db, entity)}})
         ELSE The({The({IF created.ok THEN Entered(execute(s2, created))
                        ELSE Raised(rollback(s2), created.err)
                        : created \in {ExecCreate(s2.db, entity)}})
                   : s2 \in {begin_nested(rollback(s1))}})
         : s1 \in {begin_nested(s)}, dropped \in {ExecDrop(s.db, entity, TRUE)}})

\* lines 35-68 of a generator without dependencies, up to its yield
EnterGenerator(s, entity) ==
    The({IF entered.ok THEN entered ELSE Raised(rollback(entered.s), entered.err)
         : entered \in {The({TryCreate(s1, entity) : s1 \in {begin_nested(s)}})}})

\* the ExitStack closes n entered generators: lines 66 and 68 of each
RECURSIVE CloseGenerators(_, _)
CloseGenerators(s, n) ==
    IF n = 0 THEN s
    ELSE The({CloseGenerators(s1, n - 1) : s1 \in {rollback(rollback(s))}})

\* lines 42-43: enter the dependencies in order; when one raises, the
\* ExitStack closes those entered before it
RECURSIVE EnterContexts(_, _, _)
EnterContexts(s, deps, n) ==
    IF n = Len(deps) THEN Entered(s)
    ELSE The({IF entered.ok THEN EnterContexts(entered.s, deps, n + 1)
              ELSE Raised(CloseGenerators(entered.s, n), entered.err)
              : entered \in {EnterGenerator(s, deps[n + 1])}})

\* lines 35-68 up to the yield of the simulated entity
scope_enter(s, entity, deps) ==
    The({IF ~stacked.ok THEN Raised(rollback(stacked.s), stacked.err)
         ELSE The({IF entered.ok THEN entered
                   ELSE Raised(rollback(CloseGenerators(entered.s, Len(deps))), entered.err)
                   : entered \in {TryCreate(stacked.s, entity)}})
         : stacked \in {The({EnterContexts(s1, deps, 0) : s1 \in {begin_nested(s)}})}})

\* the block is left: line 66, the ExitStack, line 68
scope_exit(s, deps) ==
    The({rollback(s1) : s1 \in {CloseGenerators(rollback(s), Len(deps))}})

----------------------------------------------------------------------------
(* solve_resolution_order (depends.py, dependency_resolution.py) *)

\* the class sqlalchemy gives a database error, by its SQLSTATE class
ErrorClass(err) ==
    CASE err \in {"SyntaxError", "UndefinedTable", "UndefinedObject", "DuplicateObject"}
            -> "ProgrammingError"
      [] err = "DependentObjectsStillExist" -> "InternalError"
      [] err = "FeatureNotSupported" -> "NotSupportedError"
      [] OTHER -> "OperationalError"

\* except (sqla_exc.ProgrammingError, sqla_exc.InternalError)
Caught(err) == ErrorClass(err) \in {"ProgrammingError", "InternalError"}

\* the entity is appended whether or not its simulation raised
SolveAttempt_AppendAlways(acc, entity, deps) ==
    The({[acc EXCEPT !.s = IF entered.ok THEN scope_exit(entered.s, deps) ELSE entered.s,
                     !.resolved = Append(@, entity)]
         : entered \in {scope_enter(acc.s, entity, deps)}})

\* the try statement has no except clause
SolveAttempt_NoExcept(acc, entity, deps) ==
    The({IF entered.ok
         THEN [acc EXCEPT !.s = scope_exit(entered.s, deps), !.resolved = Append(@, entity)]
         ELSE [acc EXCEPT !.s = entered.s, !.ok = FALSE, !.err = entered.err]
         : entered \in {scope_enter(acc.s, entity, deps)}})

\* lines 26-30 and 41-45: the entity joins the resolved ones when its
\* simulation raises nothing; an error of another class than the two caught
\* leaves solve_resolution_order
SolveAttempt(acc, entity, deps) ==
    The({IF entered.ok
         THEN [acc EXCEPT !.s = scope_exit(entered.s, deps), !.resolved = Append(@, entity)]
         ELSE IF Caught(entered.err) THEN [acc EXCEPT !.s = entered.s]
         ELSE [acc EXCEPT !.s = entered.s, !.ok = FALSE, !.err = entered.err]
         : entered \in {scope_enter(acc.s, entity, deps)}})

\* the simulation of entity is begun in the pass acc.passes, with resolved
\* as it stands
Attempted(acc, entity) ==
    [acc EXCEPT !.trace = Append(@, [pass |-> acc.passes, entity |-> entity,
                                     resolved |-> acc.resolved])]

\* the loop without "if entity in resolved: continue"
RECURSIVE SolveLoop_NoSkip(_, _, _, _)
SolveLoop_NoSkip(acc, entities, i, withDeps) ==
    IF i > Len(entities) \/ ~acc.ok THEN acc
    ELSE The({SolveLoop_NoSkip(next, entities, i + 1, withDeps)
              : next \in {SolveAttempt(Attempted(acc, entities[i]), entities[i],
                                       IF withDeps THEN acc.resolved ELSE <<>>)}})

\* one "for entity in entities" loop from position i on; withDeps: only the
\* entities not yet resolved, on top of the resolved ones
RECURSIVE SolveLoop(_, _, _, _)
SolveLoop(acc, entities, i, withDeps) ==
    IF i > Len(entities) \/ ~acc.ok THEN acc
    ELSE IF withDeps /\ entities[i] \in Range(acc.resolved)
         THEN SolveLoop(acc, entities, i + 1, withDeps)
    ELSE The({SolveLoop(next, entities, i + 1, withDeps)
              : next \in {SolveAttempt(Attempted(acc, entities[i]), entities[i],
                                       IF withDeps THEN acc.resolved ELSE <<>>)}})

\* lines 33-49: repeat the loop until a round resolves nothing
RECURSIVE SolveRounds(_, _, _)
SolveRounds(acc, entities, rounds) ==
    IF rounds = 0 \/ ~acc.ok THEN acc
    ELSE The({IF Len(next.resolved) = Len(acc.resolved) THEN next
              ELSE SolveRounds(next, entities, rounds - 1)
              : next \in {SolveLoop([acc EXCEPT !.passes = @ + 1], entities, 1, TRUE)}})

\* depends.py lines 13-55, dependency_resolution.py lines 11-53
depends_solve_resolution_order(s, entities) ==
    The({IF ~stacked.ok THEN stacked
         ELSE [stacked EXCEPT !.resolved = AppendMissing(@, entities)]
         : stacked \in {The({SolveRounds(alone, entities, Len(entities))
                             : alone \in {SolveLoop([ok |-> TRUE, s |-> s, resolved |-> <<>>,
                                                     err |-> "none", passes |-> 0,
                                                     trace |-> <<>>],
                                                    entities, 1, FALSE)}})}})

----------------------------------------------------------------------------
(* The resolver applied to lists of declared entities *)

MaxEntities == 5    \* longest list handed to solve_resolution_order

\* test_depends.py: A, B on A, C on A, D on B, E on A and D
VC == ReplaceableEntity("PGView", <<"p">>, <<"c">>, <<"1", " ", "a">>)
VD == ReplaceableEntity("PGView", <<"p">>, <<"d">>, <<"1", " ", "b">>)
VE == ReplaceableEntity("PGView", <<"p">>, <<"e">>, <<"1", " ", "a", " ", "d">>)

\* a view the database refuses with an error of another class
VUnsupported == ReplaceableEntity("PGView", <<"p">>, <<"x">>, <<"1", " ", "?">>)

ResolverPool == {VA, VB, VC, VD, VE, VBad, VUnsupported}

ResolverDBs == {Created({}, es) : es \in {<<>>, <<VA2>>, <<VA2, VB>>}}

ResolverInit ==
    /\ \E live \in ResolverDBs : sess = Session(live)
    /\ \E entities \in DistinctLists(ResolverPool, MaxEntities) :
          run = [pc |-> "call", entities |-> entities, resolved |-> <<>>, err |-> "none",
                 passes |-> 0, trace |-> <<>>]
    /\ sim = [result |-> "none"]
    /\ log = <<>>

\* solution = solve_resolution_order(sess, order)
Solve ==
    /\ run.pc = "call"
    /\ \E solved \in {depends_solve_resolution_order(sess, run.entities)} :
          /\ sess' = solved.s
          /\ run' = [run EXCEPT !.pc = IF solved.ok THEN "returned" ELSE "raised",
                                !.resolved = solved.resolved, !.err = solved.err,
                                !.passes = solved.passes, !.trace = solved.trace]
    /\ UNCHANGED <<sim, log>>

ResolverNext == Solve

ResolverSpec == ResolverInit /\ [][ResolverNext]_vars

----------------------------------------------------------------------------
(* Properties of solve_resolution_order (depends.py) *)

Index(seq, x) == CHOOSE i \in 1..Len(seq) : seq[i] = x

DeclaredKeys == {DbKey(run.entities[i]) : i \in 1..Len(run.entities)}

\* the database the resolver was called on
LiveKeys == Keys(sess.stack[1])

\* the database accepts the creation of a declared entity exactly when the
\* views it selects from are there: nothing else makes it fail, and what it
\* selects from is declared or live
CreationFailsOnlyOnMissingReferences ==
    \A i \in 1..Len(run.entities) :
        /\ Parses(run.entities[i].definition)
        /\ Supported(run.entities[i].definition)
        /\ Refs(run.entities[i].schema, run.entities[i].definition)
              \subseteq DeclaredKeys \cup LiveKeys

\* every declared entity stands after the declared entities it references
ReferencedFirst ==
    \A x, y \in Range(run.entities) :
        DbKey(x) \in Refs(y.schema, y.definition)
            => Index(run.resolved, x) < Index(run.resolved, y)

\* C12 (as stated): when creation fails only on missing references, the
\* returned order has every entity after the declared entities it references,
\* for every permutation of the input.
C12_ReferencedEntitiesFirst ==
    run.pc = "returned" /\ CreationFailsOnlyOnMissingReferences => ReferencedFirst

\* C12 (amended): ... and no declared entity exists in the database the
\* resolver is called on ...
C12_ReferencedEntitiesFirstOnFreshDatabase ==
    run.pc = "returned" /\ CreationFailsOnlyOnMissingReferences
                        /\ DeclaredKeys \cap LiveKeys = {}
        => ReferencedFirst

\* test_solve_resolution_order, order [B_A, E_AD, D_B, C_A, A]
C12_Witness ==
    /\ run.pc = "returned"
    /\ run.entities = <<VB, VE, VD, VC, VA>>
    /\ LiveKeys = {}
    /\ run.resolved = <<VA, VB, VD, VC, VE>>

\* the simulation of an entity on top of the dependencies deps raises nothing
Succeeds(entity, deps) == scope_enter(Session(sess.stack[1]), entity, deps).ok

\* the first n entities of the result succeeded, the others never did
SucceededThenPending(n) ==
    /\ \A i \in 1..n :
          \/ Succeeds(run.resolved[i], <<>>)
          \/ Succeeds(run.resolved[i], SubSeq(run.resolved, 1, i - 1))
    /\ \A i \in (n + 1)..Len(run.resolved) :
          /\ ~Succeeds(run.resolved[i], <<>>)
          /\ ~Succeeds(run.resolved[i], SubSeq(run.resolved, 1, n))
    /\ \A i, j \in (n + 1)..Len(run.resolved) :
          i < j => Index(run.entities, run.resolved[i]) < Index(run.entities, run.resolved[j])

\* the entities that can be simulated alone succeed on the first pass: they
\* stand first, in input order
AloneFirst ==
    \A x, y \in Range(run.entities) :
        /\ Succeeds(x, <<>>) /\ ~Succeeds(y, <<>>)
              => Index(run.resolved, x) < Index(run.resolved, y)
        /\ Succeeds(x, <<>>) /\ Succeeds(y, <<>>)
              /\ Index(run.entities, x) < Index(run.entities, y)
              => Index(run.resolved, x) < Index(run.resolved, y)

\* C15: the returned list holds every input entity once: first the entities
\* whose simulation succeeded, in the order they succeeded, then those whose
\* simulation never did, in input order.
C15_ResolvedThenPendingInInputOrder ==
    run.pc = "returned" =>
        /\ Len(run.resolved) = Len(run.entities)
        /\ Range(run.resolved) = Range(run.entities)
        /\ \E n \in 0..Len(run.resolved) : SucceededThenPending(n)
        /\ AloneFirst

\* two entities succeeded out of input order and two never did
C15_Witness ==
    /\ run.pc = "returned" /\ Len(run.entities) = 4
    /\ SucceededThenPending(2)
    /\ Index(run.entities, run.resolved[2]) < Index(run.entities, run.resolved[1])
    /\ Index(run.entities, run.resolved[3]) = 1

\* C16 (as stated): solve_resolution_order always returns an order, whatever
\* error the database raises for a simulated entity.
C16_ResolutionNeverRaises == run.pc # "raised"

\* C16 (amended): an error of class ProgrammingError or InternalError never
\* ends the resolution: when the database raises no error of another class,
\* an order is returned, and an entity that can be created alone stands in it
\* before every entity that cannot be parsed, wherever they stood in the input.
C16_CaughtErrorsNeverEndResolution ==
    /\ run.pc = "raised" => ~Caught(run.err)
    /\ run.pc # "call" /\ (\A i \in 1..Len(run.entities) : Supported(run.entities[i].definition))
          => /\ run.pc = "returned"
             /\ \A x, y \in Range(run.entities) :
                   ~Parses(x.definition) /\ Succeeds(y, <<>>)
                      => Index(run.resolved, y) < Index(run.resolved, x)

\* the first entity of the input cannot be parsed, the second misses its
\* reference on the first pass, and both passes went on
C16_Witness ==
    /\ run.pc = "returned" /\ Len(run.entities) = 3
    /\ run.entities = <<VBad, VB, VA>>
    /\ run.resolved = <<VA, VB, VBad>>

----------------------------------------------------------------------------
(* Resolution by declared depends_on.  sim.depends_on holds the declared   *)
(* graph as pairs <<x, y>>: x declares that it depends on y.               *)

depends_on(entity, graph) == {edge[2] : edge \in {g \in graph : g[1] = entity}}

\* the declared entities not yet placed whose depends_on are all placed
Ready(placed, entities, graph) ==
    {i \in 1..Len(entities) :
        /\ entities[i] \notin Range(placed)
        /\ depends_on(entities[i], graph) \subseteq Range(placed)}

Sorted(order) == [ok |-> TRUE, order |-> order, err |-> "none"]

\* among the ready entities the last of the input is placed
RECURSIVE topological_sort_LastReady(_, _, _)
topological_sort_LastReady(placed, entities, graph) ==
    IF Len(placed) = Len(entities) THEN Sorted(placed)
    ELSE IF Ready(placed, entities, graph) = {}
         THEN [ok |-> FALSE, order |-> <<>>, err |-> "CycleError"]
    ELSE The({topological_sort_LastReady(Append(placed, entities[i]), entities, graph)
              : i \in {CHOOSE r \in Ready(placed, entities, graph) :
                          \A q \in Ready(placed, entities, graph) : q <= r}})

\* a cycle goes unnoticed: what it holds goes last, in input order
RECURSIVE topological_sort_NoCycleCheck(_, _, _)
topological_sort_NoCycleCheck(placed, entities, graph) ==
    IF Len(placed) = Len(entities) THEN Sorted(placed)
    ELSE IF Ready(placed, entities, graph) = {} THEN Sorted(AppendMissing(placed, entities))
    ELSE The({topological_sort_NoCycleCheck(Append(placed, entities[i]), entities, graph)
              : i \in {CHOOSE r \in Ready(placed, entities, graph) :
                          \A q \in Ready(placed, entities, graph) : r <= q}})

\* the topological sort of the declared graph, ties going to the entity that
\* stands first in the input; when entities remain and none is ready, the
\* graph holds a cycle
RECURSIVE topological_sort(_, _, _)
topological_sort(placed, entities, graph) ==
    IF Len(placed) = Len(entities) THEN Sorted(placed)
    ELSE IF Ready(placed, entities, graph) = {}
         THEN [ok |-> FALSE, order |-> <<>>, err |-> "CycleError"]
    ELSE The({topological_sort(Append(placed, entities[i]), entities, graph)
              : i \in {CHOOSE r \in Ready(placed, entities, graph) :
                          \A q \in Ready(placed, entities, graph) : r <= q}})

\* test_depends_on.py: A, B on A, C on A, D on B, E on A and D
TestGraph == {<<VB, VA>>, <<VC, VA>>, <<VD, VB>>, <<VE, VA>>, <<VE, VD>>}

\* the graphs entities are declared with: none, the test's, and the test's
\* with a dependency assigned afterwards that closes a cycle
Graphs == {{}, TestGraph, TestGraph \cup {<<VA, VE>>}, TestGraph \cup {<<VB, VC>>, <<VC, VB>>},
           {<<VC, VC>>}}

ExplicitPool == {VA, VB, VC, VD, VE}

ExplicitInit ==
    /\ \E live \in {Created({}, es) : es \in {<<>>, <<VA2>>}} : sess = Session(live)
    /\ \E entities \in DistinctLists(ExplicitPool, MaxEntities), graph \in Graphs :
          /\ run = Begin(entities, [schemas |-> <<>>, exclude_schemas |-> <<>>,
                                    sqla_schemas |-> <<>>], "first", 0, <<>>)
          /\ sim = [result |-> "none",
                    depends_on |-> graph \cap (Range(entities) \X Range(entities))]
    /\ log = <<>>

\* the resolution step of a run whose entities declare depends_on: the sort
\* needs no connection, and a cycle ends the run before one is opened
SortExplicit ==
    /\ run.pc = "resolve"
    /\ \E sorted \in {topological_sort(<<>>, run.entities, sim.depends_on)} :
          run' = IF sorted.ok
                 THEN [run EXCEPT !.pc = "classify", !.connected = TRUE,
                                  !.ordered_entities = sorted.order]
                 ELSE Fail(sorted.err)
    /\ UNCHANGED <<sess, sim, log>>

ExplicitNext == Start \/ SortExplicit \/ Classify \/ DetectDrops

ExplicitSpec == ExplicitInit /\ [][ExplicitNext]_vars

----------------------------------------------------------------------------
(* Properties of the resolution by depends_on *)

\* test_depends_on_expanded: the direct and transitive depends_on of an entity
RECURSIVE Expand(_, _)
Expand(found, graph) ==
    LET more == UNION {depends_on(x, graph) : x \in found}
    IN  IF more \subseteq found THEN found ELSE Expand(found \cup more, graph)

depends_on_expanded(entity) == Expand(depends_on(entity, sim.depends_on), sim.depends_on)

\* every entity stands after its direct and transitive depends_on
AfterDependencies ==
    \A x \in Range(run.entities) : \A y \in depends_on_expanded(x) :
        Index(run.ordered_entities, y) < Index(run.ordered_entities, x)

KeepInputOrder(x, y) ==
    Index(run.entities, x) < Index(run.entities, y)
        => Index(run.ordered_entities, x) < Index(run.ordered_entities, y)

\* C13 (as stated): the order has every entity after its direct and
\* transitive depends_on, and two entities the graph does not order stand as
\* in the input, for every permutation of the input.
C13_TopologicalAndInputOrderKept ==
    run.connected =>
        /\ AfterDependencies
        /\ \A x, y \in Range(run.entities) :
              x \notin depends_on_expanded(y) /\ y \notin depends_on_expanded(x)
                 => KeepInputOrder(x, y)

\* the input is itself an order of the declared graph
InputIsTopological ==
    \A x \in Range(run.entities) : \A y \in depends_on_expanded(x) :
        Index(run.entities, y) < Index(run.entities, x)

\* C13 (amended): the order has every entity after its direct and transitive
\* depends_on; entities the graph does not order keep their input order where
\* the graph leaves room: two entities with the same depends_on stand as in
\* the input, and an input that is an order of the graph is returned as it is.
C13_TopologicalAndStable ==
    run.connected =>
        /\ AfterDependencies
        /\ \A x, y \in Range(run.entities) :
              depends_on(x, sim.depends_on) = depends_on(y, sim.depends_on)
                 => KeepInputOrder(x, y)
        /\ InputIsTopological => run.ordered_entities = run.entities

\* test_create_revision_with_explicit_depends_on: [B_A, E_AD, D_B, C_A, A]
C13_Witness ==
    /\ run.connected
    /\ sim.depends_on = TestGraph
    /\ run.entities = <<VB, VE, VD, VC, VA>>
    /\ run.ordered_entities = <<VA, VB, VD, VE, VC>>

Cyclic == \E x \in Range(run.entities) : x \in depends_on_expanded(x)

\* C14: with a cycle in the declared depends_on the run fails with a cycle
\* error, no connection opened, no statement executed and no op produced;
\* without one it never fails so.
C14_CycleRejectedBeforeAnyStatement ==
    /\ Cyclic =>
          /\ run.pc \in {"start", "resolve", "failed"}
          /\ run.pc = "failed" => run.err = "CycleError"
          /\ ~run.connected
          /\ sess = Session(sess.stack[1])
          /\ run.ops = <<>>
    /\ run.err = "CycleError" => Cyclic

C14_Witness ==
    /\ run.pc = "failed" /\ run.err = "CycleError" /\ ~run.connected
    /\ Len(run.entities) = 5
    /\ <<VA, VE>> \in sim.depends_on
    /\ sess.db # {}

----------------------------------------------------------------------------
(* get_dependent_entities and defer_dependent (dependencies.py), called on *)
(* an entity and a session, and the parse applied to the DETAIL of an error *)

MaxRecords == 3     \* most DETAIL lines of an error message handed to the parse

\* a view of another schema and a view that selects from it
VDb == ReplaceableEntity("PGView", <<"d">>, <<"b">>, <<"1", " ", "x">>)

ProbePool == {VA, VB, VD, VE, MB, VDx}

ProbeDBs == {Created({}, es) : es \in {<<>>, <<VA>>, <<VA, VB, VD>>, <<VA, VB, VC, VD, VE>>,
                                      <<VA, MB>>, <<VDx, VDb>>, <<VA, VB, MB, VDx, VDb>>}}

\* DETAIL lines: views with and without schema, a quoted name, a quoted name
\* holding a dot, and an object of a kind no template matches
LinePool ==
    {[kind |-> "view", name |-> <<"a">>],
     [kind |-> "view", name |-> <<"d", ".", "x">>],
     [kind |-> "view", name |-> <<"\"", "d", ".", "x", "\"">>],
     [kind |-> "materialized view", name |-> <<"\"", "B", "\"">>],
     [kind |-> "function", name |-> <<"x">>]}

ProbeInit ==
    /\ \E entry \in ProbeDBs : \E committed \in {{}, entry} :
          sess = [db |-> entry, stack |-> <<committed>>]
    /\ \E entity \in ProbePool :
          run = [pc |-> "call", entity |-> entity, entry |-> sess, detail |-> <<>>,
                 dependents |-> <<>>, err |-> "none"]
    /\ sim = [result |-> "none"]
    /\ log = <<>>

\* dependents = get_dependent_entities(sess, entity)
GetDependents ==
    /\ run.pc = "call"
    /\ \E found \in {get_dependent_entities(sess, run.entity)} :
          /\ sess' = found.s
          /\ run' = [run EXCEPT !.pc = "returned", !.detail = found.detail,
                                !.dependents = found.dependents]
    /\ UNCHANGED <<sim, log>>

\* defer_dependent, lines 134-139: the dependents are dropped in the order
\* returned; a drop that raises runs the finally of line 141
DropDependents ==
    /\ run.pc = "returned"
    /\ \E dropped \in {The({DropAll(s1, run.dependents) : s1 \in {begin_nested(sess)}})} :
          /\ sess' = IF dropped.ok THEN dropped.s ELSE rollback(dropped.s)
          /\ run' = [run EXCEPT !.pc = IF dropped.ok THEN "yielded" ELSE "raised",
                                !.err = dropped.err]
    /\ UNCHANGED <<sim, log>>

\* defer_dependent, lines 141-142: the block is left
LeaveDeferred ==
    /\ run.pc = "yielded"
    /\ sess' = rollback(sess)
    /\ run' = [run EXCEPT !.pc = "left"]
    /\ UNCHANGED <<sim, log>>

\* lines 86-122 applied to the DETAIL lines of an error message
ParseDetail ==
    /\ run.pc = "call"
    /\ \E detail \in Lists(LinePool, MaxRecords) :
          run' = [run EXCEPT !.pc = "parsed", !.detail = detail,
                             !.dependents = ParseRecords(detail)]
    /\ UNCHANGED <<sess, sim, log>>

ProbeNext == GetDependents \/ DropDependents \/ LeaveDeferred \/ ParseDetail

ProbeSpec == ProbeInit /\ [][ProbeNext]_vars

----------------------------------------------------------------------------
(* Properties of get_dependent_entities *)

\* the last position at which the list of entities named holds the identity
LastNamed(named, id) ==
    CHOOSE i \in 1..Len(named) :
        /\ named[i] = id
        /\ \A j \in (i + 1)..Len(named) : named[j] # id

\* C17: the returned list holds every identity the detail names, once, and an
\* identity stands before another exactly when its last line in the detail
\* comes after the other's last line.
C17_OneStandInPerIdentityLastLineFirst ==
    run.pc \in {"parsed", "returned"} =>
        \A named \in {[i \in 1..Len(ParseLines(run.detail)) |->
                          identity(ParseLines(run.detail)[i])]} :
        \A returned \in {[i \in 1..Len(run.dependents) |-> identity(run.dependents[i])]} :
            /\ Range(returned) = Range(named)
            /\ \A a, b \in 1..Len(returned) :
                  a < b <=> LastNamed(named, returned[a]) > LastNamed(named, returned[b])

\* the detail names a view in its first and in its last line, and another in between
C17_Witness ==
    /\ run.pc = "parsed"
    /\ run.detail = <<[kind |-> "view", name |-> <<"a">>],
                      [kind |-> "view", name |-> <<"d", ".", "x">>],
                      [kind |-> "view", name |-> <<"a">>]>>
    /\ run.dependents = <<ReplaceableEntity("PGView", <<"p">>, <<"a">>, <<>>),
                          ReplaceableEntity("PGView", <<"d">>, <<"x">>, <<>>)>>

\* the objects that depend, directly or transitively, on the object with key k
\* in the database the probe was called on
DependentsOf(k) == Closure(run.entry.db, {k}) \ {k}

\* C18: every returned entity stands before the returned entities it depends
\* on, and dropping them in the returned order, without cascade, never fails
\* and leaves the probed entity without dependents.
C18_DependentsDropInReturnedOrder ==
    /\ run.pc # "raised"
    /\ run.pc \in {"returned", "yielded", "left"} =>
          \A i, j \in 1..Len(run.dependents) :
              DbKey(run.dependents[i]) \in DependentsOf(DbKey(run.dependents[j])) => i < j
    /\ run.pc = "yielded" =>
          /\ \A i \in 1..Len(run.dependents) : DbKey(run.dependents[i]) \notin Keys(sess.db)
          /\ ExecDrop(sess.db, run.entity, FALSE).err # "DependentObjectsStillExist"

\* A with B on A and D on B: [D, B]
C18_Witness ==
    /\ run.pc = "yielded" /\ run.entity = VA
    /\ run.entry.db = Created({}, <<VA, VB, VD>>)
    /\ run.dependents = <<ReplaceableEntity("PGView", <<"p">>, <<"d">>, <<>>),
                          ReplaceableEntity("PGView", <<"p">>, <<"b">>, <<>>)>>
    /\ Keys(sess.db) = {DbKey(VA)}

----------------------------------------------------------------------------
(* The comparison of the two listings in get_database_definition *)

\* the rows from_database can return for views of schema p, by identity
ListedPool == <<VA, VB, VC, VD, VE>>

\* sorted(..., key=lambda x: x.identity) of the rows in S
Listing(S) == SelectSeq(ListedPool, LAMBDA e : e \in S)

\* the two listings are read one after the other from a database other
\* sessions commit to: each is any listing sorted by identity
CompareInit ==
    /\ sess = Session({})
    /\ \E without \in SUBSET Range(ListedPool) : \E with \in SUBSET Range(ListedPool) :
          run = [pc |-> "call", db_entities |-> Listing(without),
                 all_w_self |-> Listing(with), entity |-> None, err |-> "none"]
    /\ sim = [result |-> "none"]
    /\ log = <<>>

\* lines 164-170: the loop over zip_longest(db_entities, all_w_self)
Compare ==
    /\ run.pc = "call"
    /\ \E found \in {FirstDifference(run.db_entities, run.all_w_self, 1)} :
          run' = IF found.ok
                 THEN [run EXCEPT !.pc = "returned", !.entity = found.entity]
                 ELSE [run EXCEPT !.pc = "raised", !.err = found.err]
    /\ UNCHANGED <<sess, sim, log>>

CompareNext == Compare

CompareSpec == CompareInit /\ [][CompareNext]_vars

Identities(listed) == {identity(listed[i]) : i \in 1..Len(listed)}

\* the entities of the second listing whose identity the first does not hold
OnlyInSecond == {e \in Range(run.all_w_self) : identity(e) \notin Identities(run.db_entities)}

\* the entities of the first listing whose identity the second does not hold
OnlyInFirst == {e \in Range(run.db_entities) : identity(e) \notin Identities(run.all_w_self)}

\* C20: get_database_definition returns the one entity present only in the
\* listing read with the entity present; whenever the two listings do not
\* differ by exactly one entity (no differing row, or more than one) it
\* raises UnreachableException and returns no entity.
C20_ExactlyOneDifferenceOrUnreachable ==
    run.pc \in {"returned", "raised"} =>
        IF OnlyInFirst = {} /\ Cardinality(OnlyInSecond) = 1
        THEN run.pc = "returned" /\ run.entity \in OnlyInSecond
        ELSE run.pc = "raised" /\ run.err = "UnreachableException" /\ run.entity = None

----------------------------------------------------------------------------
(* reversible_op.py: the ops and their reverse *)

MaxReversals == 3

CreateOp(target) == [cls |-> "CreateOp", target |-> target]

DropOp(target, cascade) == [cls |-> "DropOp", target |-> target, cascade |-> cascade]

ReplaceOp(target) == [cls |-> "ReplaceOp", target |-> target]

RevertOp(target) == [cls |-> "RevertOp", target |-> target]

\* every op turns into a CreateOp on its target
reverse_AlwaysCreate(self) ==
    [ok |-> TRUE, self |-> self, op |-> CreateOp(self.target), err |-> "none"]

\* reverse(): the receiver as the call leaves it, and the op returned or the
\* error raised; RevertOp inherits the reverse of ReversibleOp
reverse(self) ==
    IF self.cls = "CreateOp"
    THEN [ok |-> TRUE, self |-> self, op |-> DropOp(self.target, FALSE), err |-> "none"]
    ELSE IF self.cls = "DropOp"
    THEN [ok |-> TRUE, self |-> self, op |-> CreateOp(self.target), err |-> "none"]
    ELSE IF self.cls = "ReplaceOp"
    THEN [ok |-> TRUE, self |-> self, op |-> RevertOp(self.target), err |-> "none"]
    ELSE [ok |-> FALSE, self |-> self, op |-> None, err |-> "NotImplementedError"]

Targets == ResolverPool

ReversibleOps ==
    {CreateOp(t) : t \in Targets} \cup {ReplaceOp(t) : t \in Targets}
        \cup {RevertOp(t) : t \in Targets}
        \cup {DropOp(t, cascade) : t \in Targets, cascade \in BOOLEAN}

\* run.op is the op reverse() is called on next; run.calls holds, for every
\* call made, the receiver before and after the call and what came back
ReverseInit ==
    /\ sess = Session({})
    /\ \E op \in ReversibleOps :
          run = [pc |-> "call", op |-> op, calls |-> <<>>]
    /\ sim = [result |-> "none"]
    /\ log = <<>>

\* op = op.reverse()
Reverse_Call ==
    /\ run.pc = "call"
    /\ Len(run.calls) < MaxReversals
    /\ \E r \in {reverse(run.op)} :
          run' = [pc |-> IF r.ok THEN "call" ELSE "raised",
                  op |-> IF r.ok THEN r.op ELSE r.self,
                  calls |-> Append(run.calls, [before |-> run.op, after |-> r.self,
                                               ok |-> r.ok, op |-> r.op, err |-> r.err])]
    /\ UNCHANGED <<sess, sim, log>>

ReverseNext == Reverse_Call

ReverseSpec == ReverseInit /\ [][ReverseNext]_vars

ReverseOf(cls) ==
    IF cls = "CreateOp" THEN "DropOp"
    ELSE IF cls = "DropOp" THEN "CreateOp"
    ELSE "RevertOp"

\* C21: reverse() of a Create op is a Drop op on the same target, of a Drop
\* op a Create op on the same target, of a Replace op a Revert op on the
\* same target; on a Revert op it raises; the op it is called on is left
\* unchanged, and reversing a Create or a Drop op twice gives an op of the
\* original kind on the original target.
C21_ReverseOfEachOp ==
    /\ \A i \in 1..Len(run.calls) : \A call \in {run.calls[i]} :
          /\ call.after = call.before
          /\ IF call.before.cls = "RevertOp"
             THEN ~call.ok /\ call.err = "NotImplementedError"
             ELSE /\ call.ok
                  /\ call.op.cls = ReverseOf(call.before.cls)
                  /\ call.op.target = call.before.target
    /\ \A i \in 1..(Len(run.calls) - 1) :
          run.calls[i].before.cls \in {"CreateOp", "DropOp"}
              => /\ run.calls[i + 1].ok
                 /\ run.calls[i + 1].op.cls = run.calls[i].before.cls
                 /\ run.calls[i + 1].op.target = run.calls[i].before.target

\* a cascading Drop op reversed twice: a Drop op on the same target
C21_Witness ==
    /\ Len(run.calls) = 2
    /\ run.calls[1].before = DropOp(VB, TRUE)
    /\ run.calls[2].ok
    /\ run.calls[2].op.cls = "DropOp"

----------------------------------------------------------------------------
(* Identity of entities built from differently spaced texts *)

MaxText == 3

SignatureChars == {"a", " ", "\n"}

SchemaTexts == {<<"p">>, <<" ", "p", "\n">>}

DefinitionTexts == {<<"1">>, <<"2", ";">>, <<"1", " ", "a">>}

\* two entities of one class are about to be constructed from the texts of
\* run.first and run.second
IdentityInit ==
    /\ sess = Session({})
    /\ \E cls \in Range(Subclasses) : \E definition \in {<<"1">>} :
       \E s1 \in SchemaTexts : \E s2 \in SchemaTexts :
       \E g1 \in Lists(SignatureChars, MaxText) : \E g2 \in Lists(SignatureChars, MaxText) :
          run = [pc |-> "call", cls |-> cls,
                 first |-> [schema |-> s1, signature |-> g1, definition |-> definition],
                 second |-> [schema |-> s2, signature |-> g2, definition |-> definition],
                 entities |-> <<>>]
    /\ sim = [result |-> "none"]
    /\ log = <<>>

\* cls(schema, signature, definition), for both texts
Construct ==
    /\ run.pc = "call"
    /\ run' = [run EXCEPT !.pc = "built",
                          !.entities = <<ReplaceableEntity(run.cls, run.first.schema,
                                                           run.first.signature,
                                                           run.first.definition),
                                         ReplaceableEntity(run.cls, run.second.schema,
                                                           run.second.signature,
                                                           run.second.definition)>>]
    /\ UNCHANGED <<sess, sim, log>>

\* the first entity is declared again with another definition
Redefine ==
    /\ run.pc = "built"
    /\ \E definition \in DefinitionTexts :
          run' = [run EXCEPT !.pc = "redefined",
                             !.entities = Append(run.entities,
                                 ReplaceableEntity(run.cls, run.first.schema,
                                                   run.first.signature, definition))]
    /\ UNCHANGED <<sess, sim, log>>

IdentityNext == Construct \/ Redefine

IdentitySpec == IdentityInit /\ [][IdentityNext]_vars

\* the text without its whitespace
Unspaced(text) == SelectSeq(text, LAMBDA c : c \notin Whitespace)

\* C22: two entities of the same variant constructed from schema and
\* signature texts that differ only in whitespace have equal identity, and
\* the identity does not depend on the definition: replacing the definition
\* leaves the identity unchanged.
C22_IdentityIgnoresWhitespaceAndDefinition ==
    /\ run.pc \in {"built", "redefined"}
           /\ Unspaced(run.first.schema) = Unspaced(run.second.schema)
           /\ Unspaced(run.first.signature) = Unspaced(run.second.signature)
       => identity(run.entities[1]) = identity(run.entities[2])
    /\ run.pc = "redefined" => identity(run.entities[3]) = identity(run.entities[1])

----------------------------------------------------------------------------
(* recreate_dropped (depends.py) *)

MaxBlockStmts == 2

\* lines 89-97, for the classes of the model
collect_all_db_entities(db) ==
    from_database(db, "PGView", <<"%">>) \o from_database(db, "PGMaterializedView", <<"%">>)

\* nothing is held to be missing
Unresolved_None(before, after) == <<>>

\* lines 115-126: the entities of before whose identity after does not hold
Unresolved(before, after) ==
    SelectSeq(before, LAMBDA ent : identity(ent) \notin Identities(after))

\* lines 132-133: one create per entity, in order; the first that raises
\* leaves the loop
RECURSIVE CreateAll(_, _)
CreateAll(s, ents) ==
    IF ents = <<>> THEN Entered(s)
    ELSE The({IF created.ok THEN CreateAll(execute(s, created), Tail(ents))
              ELSE Raised(s, created.err)
              : created \in {ExecCreate(s.db, Head(ents))}})

\* sess.commit(): the work of the transaction becomes what is committed
commit(s) == [db |-> s.db, stack |-> <<s.db>>]

\* how recreate_dropped is left: committed or raised, and the line that raised
Left(pc, at, s, err, ordered) ==
    [pc |-> pc, at |-> at, s |-> s, err |-> err, ordered |-> ordered]

\* the sanity check is left out
recreate_dropped_exit_Unchecked(s, before) ==
    The({IF ~solved.ok THEN Left("raised", "solve", solved.s, solved.err, <<>>)
         ELSE The({IF ~created.ok
                   THEN Left("raised", "create", created.s, created.err, solved.resolved)
                   ELSE Left("committed", "commit", commit(created.s), "none", solved.resolved)
                   : created \in {CreateAll(solved.s, solved.resolved)}})
         : solved \in {depends_solve_resolution_order(
                           s, Unresolved(before, collect_all_db_entities(s.db)))}})

\* lines 113-145: what follows a block that raised nothing
recreate_dropped_exit(s, before) ==
    The({IF ~solved.ok THEN Left("raised", "solve", solved.s, solved.err, <<>>)
         ELSE The({IF ~created.ok
                   THEN Left("raised", "create", created.s, created.err, solved.resolved)
                   ELSE IF Len(before) # Len(collect_all_db_entities(created.s.db))
                   THEN Left("raised", "assert", rollback(created.s), "AssertionError",
                             solved.resolved)
                   ELSE Left("committed", "commit", commit(created.s), "none", solved.resolved)
                   : created \in {CreateAll(solved.s, solved.resolved)}})
         : solved \in {depends_solve_resolution_order(
                           s, Unresolved(before, collect_all_db_entities(s.db)))}})

RecreatePool == {VA, VB, VC, MB}

RecreateDBs == {Created({}, es) : es \in {<<>>, <<VA2>>, <<VA2, VB>>, <<VA, VB, VD>>,
                                          <<VA, VC, MB>>}}

\* a session without uncommitted work on a live database
RecreateInit ==
    /\ \E live \in RecreateDBs : sess = Session(live)
    /\ run = [pc |-> "call", entry |-> sess, before |-> <<>>, after |-> <<>>,
              stmts |-> <<>>, ordered |-> <<>>, at |-> "none", err |-> "none"]
    /\ sim = [result |-> "none"]
    /\ log = <<>>

\* lines 99-108: the entities are collected and the block begins
EnterBlock ==
    /\ run.pc = "call"
    /\ run' = [run EXCEPT !.pc = "block", !.before = collect_all_db_entities(sess.db)]
    /\ UNCHANGED <<sess, sim, log>>

\* the block executes a statement; a statement that fails raises out of the
\* block, lines 109-111
BlockExecute ==
    /\ run.pc = "block" /\ Len(run.stmts) < MaxBlockStmts
    /\ \E e \in RecreatePool, stmt \in {"create", "drop", "drop cascade"} :
       \E res \in {IF stmt = "create" THEN ExecCreate(sess.db, e)
                   ELSE ExecDrop(sess.db, e, stmt = "drop cascade")} :
          /\ sess' = IF res.ok THEN execute(sess, res) ELSE rollback(sess)
          /\ run' = IF res.ok
                    THEN [run EXCEPT !.stmts = Append(@, <<stmt, identity(e)>>)]
                    ELSE [run EXCEPT !.stmts = Append(@, <<stmt, identity(e)>>),
                                     !.pc = "raised", !.at = "block", !.err = res.err,
                                     !.after = collect_all_db_entities(sess.db)]
    /\ UNCHANGED <<sim, log>>

\* the block raises an error of its own, lines 109-111
BlockRaise ==
    /\ run.pc = "block"
    /\ sess' = rollback(sess)
    /\ run' = [run EXCEPT !.pc = "raised", !.at = "block", !.err = "UserError",
                          !.after = collect_all_db_entities(sess.db)]
    /\ UNCHANGED <<sim, log>>

\* the block completes: lines 113-145
LeaveBlock ==
    /\ run.pc = "block"
    /\ \E left \in {recreate_dropped_exit(sess, run.before)} :
          /\ sess' = left.s
          /\ run' = [run EXCEPT !.pc = left.pc, !.at = left.at, !.err = left.err,
                                !.after = collect_all_db_entities(sess.db),
                                !.ordered = left.ordered]
    /\ UNCHANGED <<sim, log>>

RecreateNext == EnterBlock \/ BlockExecute \/ BlockRaise \/ LeaveBlock

RecreateSpec == RecreateInit /\ [][RecreateNext]_vars

----------------------------------------------------------------------------
(* Properties of recreate_dropped *)

\* the entities the database holds once the transaction is committed
Committed_Entities == collect_all_db_entities(sess.stack[1])

\* no entity of the list references one that comes later in it
CreatableInOrder(ordered) ==
    \A i \in 1..Len(ordered) : \A j \in (i + 1)..Len(ordered) :
        DbKey(ordered[j]) \notin Refs(ordered[i].schema, ordered[i].definition)

RolledBack == sess = run.entry

\* C24: recreate_dropped commits only when the block raised no error and
\* the number of entities after the re-creation equals the number before
\* the block; when the block raises, or when the numbers differ, the session
\* is rolled back, nothing is committed and the error reaches the caller.
C24_CommitOnlyWhenCountsMatch ==
    /\ run.pc = "committed"
           => /\ run.at = "commit" /\ run.err = "none"
              /\ Len(Committed_Entities) = Len(run.before)
    /\ run.pc = "raised" /\ run.at \in {"block", "assert"}
           => RolledBack /\ run.err # "none"
    /\ run.pc \in {"committed", "raised"} /\ run.at \in {"commit", "assert"}
           => (run.at = "assert" <=>
                  Len(run.before) # Len(run.after) + Len(run.ordered))

\* the block created a view and dropped nothing: AssertionError, rolled back
C24_Witness ==
    /\ run.pc = "raised" /\ run.err = "AssertionError"
    /\ Len(run.stmts) = 1 /\ run.stmts[1][1] = "create"
    /\ Len(run.after) = Len(run.before) + 1
    /\ RolledBack

----------------------------------------------------------------------------
(* Materialized views in the two simulate_entity functions: the WITH DATA  *)
(* clause of the statements a simulation executes                          *)

PGMaterializedView(schema, signature, definition, with_data) ==
    [cls |-> "PGMaterializedView",
     schema |-> normalize_whitespace(schema),
     signature |-> normalize_whitespace(signature),
     definition |-> escape_colon(strip_terminating_semicolon(definition)),
     with_data |-> with_data]

\* the clause that ends CREATE MATERIALIZED VIEW; a view has none
WithClause(entity) ==
    IF entity.cls # "PGMaterializedView" THEN "none"
    ELSE IF entity.with_data THEN "WITH DATA" ELSE "WITH NO DATA"

CreateStatement(entity) ==
    [target |-> identity(entity), cls |-> entity.cls, with |-> WithClause(entity)]

\* simulate.py lines 29-31: the object of the caller as the lines leave it,
\* and the object the rest of the function works on
Unpopulated(entity) ==
    [caller |-> entity,
     local |-> IF entity.cls = "PGMaterializedView" /\ entity.with_data
               THEN [entity EXCEPT !.with_data = FALSE]
               ELSE entity]

Executed(ok, s, stmts, objects) == [ok |-> ok, s |-> s, stmts |-> stmts, objects |-> objects]

\* simulate.py: the generators of ents[n + 1..], the dependencies and then
\* the entity itself, are entered in order, each
\* executing one create of its own object (line 50 or line 63); the first
\* that raises ends the walk
RECURSIVE SimulateCreates(_, _, _)
SimulateCreates(s, ents, n) ==
    IF n = Len(ents) THEN Executed(TRUE, s, <<>>, <<>>)
    ELSE The({The({IF ~entered.ok
                   THEN Executed(FALSE, entered.s, <<CreateStatement(u.local)>>,
                                 <<u.caller>> \o SubSeq(ents, n + 2, Len(ents)))
                   ELSE The({Executed(rest.ok, rest.s,
                                      <<CreateStatement(u.local)>> \o rest.stmts,
                                      <<u.caller>> \o rest.objects)
                             : rest \in {SimulateCreates(entered.s, ents, n + 1)}})
                   : entered \in {EnterGenerator(s, u.local)}})
              : u \in {Unpopulated(ents[n + 1])}})

\* replaceable_entity.py lines 43-51: each scope defers the dependents of
\* its entity and executes the create or replace of the object it was given
RECURSIVE DiffSimulateCreates(_, _, _)
DiffSimulateCreates(s, ents, n) ==
    IF n = Len(ents) THEN Executed(TRUE, s, <<>>, <<>>)
    ELSE The({IF ~deferred.ok
              THEN Executed(FALSE, deferred.s, <<>>, SubSeq(ents, n + 1, Len(ents)))
              ELSE The({IF ~entered.ok
                        THEN Executed(FALSE, entered.s, <<CreateStatement(ents[n + 1])>>,
                                      SubSeq(ents, n + 1, Len(ents)))
                        ELSE The({Executed(rest.ok, rest.s,
                                           <<CreateStatement(ents[n + 1])>> \o rest.stmts,
                                           <<ents[n + 1]>> \o rest.objects)
                                  : rest \in {DiffSimulateCreates(entered.s, ents, n + 1)}})
                        : entered \in {EnterScope(s, ents[n + 1])}})
              : deferred \in {defer_dependent(begin_nested(s), ents[n + 1])}})

MBData == PGMaterializedView(<<"p">>, <<"B">>, <<"1", "\n", "a">>, TRUE)

MBNoData == PGMaterializedView(<<"p">>, <<"B">>, <<"1", "\n", "a">>, FALSE)

MCData == PGMaterializedView(<<"p">>, <<"c">>, <<"1">>, TRUE)

DataPool == {VA, MBData, MBNoData, MCData}

\* run.entity and run.dependencies are the objects the caller holds
DataInit ==
    /\ \E live \in {Created({}, es) : es \in {<<>>, <<VA2>>}} : sess = Session(live)
    /\ \E entity \in DataPool : \E dependencies \in Lists(DataPool, MaxDeps) :
          run = [pc |-> "call", fn |-> "none", entity |-> entity,
                 dependencies |-> dependencies, given |-> dependencies \o <<entity>>,
                 stmts |-> <<>>, ok |-> TRUE]
    /\ sim = [result |-> "none"]
    /\ log = <<>>

Simulated(fn, done) ==
    [run EXCEPT !.pc = "left", !.fn = fn, !.ok = done.ok, !.stmts = done.stmts,
                !.dependencies = SubSeq(done.objects, 1, Len(done.objects) - 1),
                !.entity = done.objects[Len(done.objects)]]

\* with simulate_entity(sess, entity, dependencies): pass    (simulate.py)
SimulateScope ==
    /\ run.pc = "call"
    /\ \E done \in {SimulateCreates(begin_nested(sess), run.given, 0)} :
          run' = Simulated("simulate.simulate_entity", done)
    /\ UNCHANGED <<sess, sim, log>>

\* with simulate_entity(sess, entity, dependencies): pass    (replaceable_entity.py)
DiffSimulateScope ==
    /\ run.pc = "call"
    /\ \E done \in {DiffSimulateCreates(begin_nested(sess), run.given, 0)} :
          run' = Simulated("replaceable_entity.simulate_entity", done)
    /\ UNCHANGED <<sess, sim, log>>

DataNext == SimulateScope \/ DiffSimulateScope

DataSpec == DataInit /\ [][DataNext]_vars

\* C25: whenever a materialized view is simulated, as the target entity or
\* as a dependency, the create executed inside the scope has data
\* population disabled, and the entity object passed by the caller keeps
\* its original with_data value after the scope exits.
C25_SimulatedWithoutData ==
    run.pc = "left" =>
        /\ \A i \in 1..Len(run.stmts) :
              run.stmts[i].cls = "PGMaterializedView" => run.stmts[i].with = "WITH NO DATA"
        /\ run.dependencies \o <<run.entity>> = run.given

----------------------------------------------------------------------------
(* Excluded schemas in the reconciliation run *)

Excluded == Range(run.config.exclude_schemas)

\* C26: the schemas observed for the drop detection are the schemas
\* argument, the host metadata schemas and the schemas of the declared
\* entities, minus exclude_schemas; no Drop op is emitted for a live entity
\* of an excluded schema, while a declared entity of an excluded schema is
\* still classified and gets its Create op when no live entity has its
\* identity.
C26_ExcludedSchemasNeverDropped ==
    /\ run.connected =>
          Range(run.observed_schemas)
              = (Range(run.config.schemas)
                    \cup (Range(run.config.sqla_schemas) \ {NoSchema})
                    \cup {run.entities[i].schema : i \in 1..Len(run.entities)}) \ Excluded
    /\ run.pc = "done" =>
          /\ \A i \in 1..Len(run.ops) :
                run.ops[i].kind = "drop" => run.ops[i].target.schema \notin Excluded
          /\ \A i \in 1..Len(run.entities) : \E j \in 1..Len(run.local_entities) :
                /\ run.ordered_entities[j] = run.entities[i]
                /\ run.entities[i].schema \in Excluded
                      /\ identity(run.local_entities[j])
                             \notin {identity(x) : x \in Live(run.entities[i].cls,
                                                               run.entities[i].schema)}
                   => KindFor(run.entities[i]) = "create"

----------------------------------------------------------------------------
(* The nested transactions of one simulation (simulate.py) *)

\* the scopes still open after the events of a log, innermost last, each
\* named by the frame that opened it; ok is FALSE once a rollback was issued
\* with no scope of the simulation open or released a scope another frame
\* had opened
RECURSIVE Scopes(_, _)
Scopes(events, open) ==
    IF events = <<>> THEN [ok |-> TRUE, open |-> open]
    ELSE IF Head(events).op = "begin_nested"
         THEN Scopes(Tail(events), Append(open, Head(events).frame))
    ELSE IF Head(events).op = "rollback"
         THEN IF open # <<>> /\ open[Len(open)] = Head(events).frame
              THEN Scopes(Tail(events), SubSeq(open, 1, Len(open) - 1))
              ELSE [ok |-> FALSE, open |-> open]
    ELSE Scopes(Tail(events), open)

Opened == Cardinality({i \in 1..Len(log) : log[i].op = "begin_nested"})

Released == Cardinality({i \in 1..Len(log) : log[i].op = "rollback"})

\* C27: on every exit path of simulate_entity the rollbacks it issued are as
\* many as the nested transactions it opened, each rollback released the
\* most recently opened scope still open, which the same generator had
\* opened, and the session is as deep on exit as it was on entry; while the
\* simulation runs the session is deeper by the scopes still open.
C27_ScopesReleasedInnermostFirst ==
    \A scopes \in {Scopes(log, <<>>)} :
        /\ scopes.ok
        /\ Len(sess.stack) = Len(sim.entry.stack) + Len(scopes.open)
        /\ Exited => /\ scopes.open = <<>>
                     /\ Opened = Released
                     /\ Len(sess.stack) = Len(sim.entry.stack)

\* a dependency was entered by the retry, the entity after its drop, the
\* block ran and the scope was left without an error
C27_Witness ==
    /\ Exited /\ sim.result # "raised"
    /\ Len(sim.frames) = 2
    /\ IsPrefix(<<B, B, <<"drop", FALSE>>, R, B, <<"create", TRUE>>>>, FrameLog(2))
    /\ IsPrefix(<<B, B, <<"drop", TRUE>>, <<"create", TRUE>>>>, FrameLog(1))
    /\ Opened = 5 /\ Released = 5

----------------------------------------------------------------------------
(* The simulation dependencies of the classification loop *)

\* the entities of a list that got a Create or a Replace op, in order
WithOp(entities) == SelectSeq(entities, LAMBDA e : KindFor(e) # "none")

\* C28: when the k-th entity in resolver order is classified, the
\* dependency list given to its simulations is the sequence of the earlier
\* entities that were classified Create or Replace, in resolver order; an
\* entity classified no-op is never among them.
C28_DependenciesAreEarlierOps ==
    InRun =>
        \A k \in 1..Len(run.given) :
            /\ run.given[k] = WithOp(SubSeq(run.ordered_entities, 1, k - 1))
            /\ \A i \in 1..Len(run.given[k]) : KindFor(run.given[k][i]) \in {"create", "replace"}

\* the second entity was simulated on top of the first, which is replaced
C28_Witness ==
    /\ run.pc = "done" /\ Len(run.given) = 2
    /\ KindFor(run.ordered_entities[1]) = "replace"
    /\ run.given[2] = <<run.ordered_entities[1]>>
    /\ KindFor(run.ordered_entities[2]) = "create"

\* the first entity is live as declared: the second was simulated without it
C28_WitnessNoOp ==
    /\ run.pc = "done" /\ Len(run.given) = 2
    /\ KindFor(run.ordered_entities[1]) = "none"
    /\ KindFor(run.ordered_entities[2]) = "create"
    /\ run.given[2] = <<>>

----------------------------------------------------------------------------
(* The transactions of the reconciliation run *)

\* C29: every transaction the diff engine opens on its connection, for the
\* resolution, for each classification and for the drop detection, is
\* rolled back and none is committed, whether the run succeeds or fails:
\* every step of the run leaves the committed objects as they were and the
\* session without uncommitted work or open scope.
C29_RunLeavesNoTrace ==
    [][run.pc \in {"start", "resolve", "classify"}
          => /\ sess'.stack = <<sess.stack[1]>>
             /\ sess'.db = sess.stack[1]]_vars

\* a run failed at its second entity, after the first was simulated over a
\* live database and got its op
C29_Witness ==
    /\ run.pc = "failed" /\ run.connected
    /\ Len(run.given) = 2 /\ Len(run.ops) = 1
    /\ Committed # {}
    /\ sess = Session(Committed)

----------------------------------------------------------------------------
(* The passes of solve_resolution_order (depends.py, dependency_resolution.py) *)

\* the attempts of the pass p; the dependency-free pass is pass 0
AttemptsIn(p) == {i \in 1..Len(run.trace) : run.trace[i].pass = p}

\* the attempt i resolved its entity
Resolving(i) ==
    Succeeds(run.trace[i].entity,
             IF run.trace[i].pass = 0 THEN <<>> ELSE run.trace[i].resolved)

\* the pass p resolved an entity
Progress(p) == \E i \in AttemptsIn(p) : Resolving(i)

\* C30: solve_resolution_order ends after a bounded number of simulations
\* for every input and every pattern of simulation failures: after the
\* dependency-free pass it runs at most len(entities) further passes, every
\* pass before the last one resolved an entity, a call that returns before
\* len(entities) passes returned at a pass that resolved none, and no attempt
\* simulates as a candidate an entity that is already resolved.
C30_PassesAreBoundedAndStopAtFixedPoint ==
    run.pc # "call" =>
        /\ run.passes <= Len(run.entities)
        /\ Len(run.trace) <= Len(run.entities) * (Len(run.entities) + 1)
        /\ \A p \in 1..(run.passes - 1) : Progress(p)
        /\ run.pc = "returned" /\ run.passes \in 1..(Len(run.entities) - 1)
              => ~Progress(run.passes)
        /\ \A i \in 1..Len(run.trace) :
              run.trace[i].entity \notin Range(run.trace[i].resolved)

\* five entities: one resolved alone, three more in three passes one after
\* the other, one that fails in every pass; the fourth pass resolves nothing
C30_Witness ==
    /\ run.pc = "returned"
    /\ Len(run.entities) = 5 /\ run.passes = 4
    /\ Progress(0) /\ Progress(3) /\ ~Progress(4)
    /\ \E i \in AttemptsIn(4) : \A p \in 0..3 :
          \E j \in AttemptsIn(p) : run.trace[j].entity = run.trace[i].entity

====
